---- MODULE Spec2Model ----
(***************************************************************************)
(* Interaction dispatch and rate-limited command execution pipeline of the *)
(* Picasso/Guidon bot: the user-manager's sliding-window rate limiter and  *)
(* its in-memory cache, the user directory, the proxy's webhook handler,   *)
(* the bus, the draw processor and the canvas store.                       *)
(*                                                                         *)
(* Time is the reading of time.time(), observed at whole seconds.          *)
(* Optional values are sequences: <<>> is None, <<v>> is a present value.  *)
(***************************************************************************)
EXTENDS Integers, Sequences, FiniteSets, TLC

VARIABLES
    now,          \* time.time()
    rate_limits,  \* Firestore collection 'rate_limits': [user][command] -> Optional doc
    cache_rl,     \* SimpleCache entries under the keys "rate_limit:{user}:{command}"
    cache_user,   \* SimpleCache entries under the keys "user:{user}"
    users,        \* Firestore collection 'users': [user] -> Optional doc
    rl_log,       \* observation: the check_rate_limit calls answered so far
    resp,         \* observation: the request the proxy handled last and its answer
    bus,          \* Pub/Sub: the Envelopes published and not yet acknowledged
    pixels,       \* Firestore collection 'pixels': [x][y] -> Optional doc
    outcome,      \* observation: the Envelope a processor handled last and its reply
    canvas_doc,   \* Firestore document 'canvas/main'
    drawing,      \* the draw_pixel calls in flight, per request
    drawn,        \* observation: the Canvas Store call answered last
    updating,     \* the user-manager calls in flight, per request
    responses,    \* the replies kept for polling: [component][token] -> Optional slot
    snapshots     \* Firestore collection 'snapshots': the set of its documents

vars == <<now, rate_limits, cache_rl, cache_user, users, rl_log, resp, bus, pixels, outcome,
          canvas_doc, drawing, drawn, updating, responses, snapshots>>
umVars == <<rate_limits, cache_rl, cache_user, users, updating>>
canvasVars == <<canvas_doc, drawing, drawn>>
pipeVars == <<resp, bus, pixels, outcome, canvas_doc, drawing, drawn, responses, snapshots>>

None == <<>>
Some(v) == <<v>>
IsSome(o) == Len(o) = 1
Get(o) == o[1]

(***************************************************************************)
(* Bounds of the model.                                                    *)
(***************************************************************************)
MaxLogged == 6      \* allowed answers observed per (user, command) and window

UserIds == {"u1", "u2"}
Requests == {"r1", "r2"}    \* Canvas Store requests served at the same time
Commands == {"draw", "snapshot", "stats"}
Coords == {0, 5, 47}    \* the canvas cells the draws aim at
\* the components that keep replies for polling (the proxy and the two
\* versions of the web frontend) and the tokens the replies are kept under
Components == {"proxy", "services_web_frontend", "web_frontend"}
Tokens == {"t1"}

\* The user and the commands the rate-limiter behaviours exercise, and the
\* instants at which calls arrive: inside the cache TTL of an earlier call
\* (3, 301), one cache TTL apart (0, 5, ..., 20), in the last seconds of the
\* snapshot window opened at 0 (298) and after its end (301, 305).
RLUser == "u1"
RLCommands == {"snapshot"}
RLTiers == {FALSE}
RLInstants == {0, 3, 5, 10, 15, 20, 298, 301, 305}

(***************************************************************************)
(* rate_limiter.py: RateLimiter.RATE_LIMITS                                *)
(***************************************************************************)
DrawDefaultCalls == 10
DrawPremiumCalls == 30
DrawPeriod == 60
SnapshotDefaultCalls == 5
SnapshotPremiumCalls == 15
SnapshotPeriod == 300
DefaultDefaultCalls == 30
DefaultPremiumCalls == 60
DefaultPeriod == 60
RateLimitCacheTTL == 5
UserCacheTTL == 60

\* command_limits = RATE_LIMITS.get(command, RATE_LIMITS['default']);
\* config = command_limits['premium' if is_premium else 'default']
max_calls(command, is_premium) ==
    IF command = "draw" THEN (IF is_premium THEN DrawPremiumCalls ELSE DrawDefaultCalls)
    ELSE IF command = "snapshot"
         THEN (IF is_premium THEN SnapshotPremiumCalls ELSE SnapshotDefaultCalls)
         ELSE (IF is_premium THEN DefaultPremiumCalls ELSE DefaultDefaultCalls)

period_seconds(command) ==
    IF command = "draw" THEN DrawPeriod
    ELSE IF command = "snapshot" THEN SnapshotPeriod
    ELSE DefaultPeriod

(***************************************************************************)
(* cache.py: SimpleCache                                                   *)
(***************************************************************************)
\* get(): the value when the key is present and time.time() < expires
cache_get(entry, t) ==
    IF IsSome(entry) /\ t < Get(entry).expires THEN Some(Get(entry).value) ELSE None

\* get() deletes an entry it finds expired
cache_after_get(entry, t) ==
    IF IsSome(entry) /\ ~(t < Get(entry).expires) THEN None ELSE entry

\* set(): expires = time.time() + ttl
cache_set(value, ttl, t) == Some([value |-> value, expires |-> t + ttl])

(***************************************************************************)
(* rate_limiter.py: RateLimiter.check_rate_limit                           *)
(***************************************************************************)
RECURSIVE SeqMin(_)
SeqMin(s) ==
    IF Len(s) = 1 THEN s[1]
    ELSE LET m == SeqMin(Tail(s)) IN IF s[1] < m THEN s[1] ELSE m

\* recent_calls = [call_time for call_time in calls if call_time > cutoff_time]
recent_calls(calls, cutoff_time) ==
    LET Keep(call_time) == call_time > cutoff_time IN SelectSeq(calls, Keep)

\* if len(recent_calls) >= max_calls: rate limit exceeded
limit_exceeded(recent, maxc) == Len(recent) >= maxc

\* The answer of check_rate_limit, with the document and the cache entry it
\* leaves: [result, doc, entry, from_cache].
check_rate_limit(doc, entry, command, is_premium, t) ==
    LET cached == cache_get(entry, t)
        maxc == max_calls(command, is_premium)
        period == period_seconds(command)
    IN
    IF IsSome(cached)
    THEN [result |-> Get(cached), doc |-> doc, entry |-> entry, from_cache |-> TRUE]
    ELSE IF ~IsSome(doc)
    THEN LET result == [allowed |-> TRUE, remaining |-> maxc - 1,
                        reset_in |-> period, max |-> maxc]
         IN [result |-> result,
             doc |-> Some([calls |-> <<t>>]),
             entry |-> cache_set(result, RateLimitCacheTTL, t),
             from_cache |-> FALSE]
    ELSE LET recent == recent_calls(Get(doc).calls, t - period) IN
         IF limit_exceeded(recent, maxc)
         THEN LET result == [allowed |-> FALSE, remaining |-> 0,
                             reset_in |-> SeqMin(recent) + period - t, max |-> maxc]
              IN [result |-> result,
                  doc |-> doc,
                  entry |-> cache_set(result, RateLimitCacheTTL, t),
                  from_cache |-> FALSE]
         ELSE LET appended == Append(recent, t)
                  result == [allowed |-> TRUE, remaining |-> maxc - Len(appended),
                             reset_in |-> period, max |-> maxc]
              IN [result |-> result,
                  doc |-> Some([calls |-> appended]),
                  entry |-> cache_set(result, RateLimitCacheTTL, t),
                  from_cache |-> FALSE]

(***************************************************************************)
(* rate_limiter.py: RateLimiter.reset_limits                               *)
(***************************************************************************)
\* reset_limits(user_id, command): the one document and its cache entry are
\* deleted. reset_limits(user_id, None): every document whose user_id field
\* is the user is deleted; the cache is left alone.
reset_limits_docs(docs, user_id, command) ==
    IF IsSome(command)
    THEN [docs EXCEPT ![user_id][Get(command)] = None]
    ELSE [docs EXCEPT ![user_id] = [c \in Commands |-> None]]

reset_limits_cache(entries, user_id, command) ==
    IF IsSome(command)
    THEN [entries EXCEPT ![user_id][Get(command)] = None]
    ELSE entries

(***************************************************************************)
(* Observation of the answers of check_rate_limit.                         *)
(*   admitted[u][c]: the calls answered allowed=true whose time is inside  *)
(*                   the window that ends now, oldest first                *)
(*   prev[u][c]:     the latest answer given for the pair                  *)
(*   last:           the latest answer given, with what preceded it        *)
(***************************************************************************)
InWindow(entries, command, t) ==
    LET Keep(e) == e.time > t - period_seconds(command) IN SelectSeq(entries, Keep)

EmptyLog ==
    [admitted |-> [u \in UserIds |-> [c \in Commands |-> <<>>]],
     prev |-> [u \in UserIds |-> [c \in Commands |-> None]],
     last |-> None]

LogCheck(log, kind, u, c, p, t, res) ==
    LET before == InWindow(log.admitted[u][c], c, t)
        after == IF res.result.allowed
                 THEN Append(before, [time |-> t, is_premium |-> p])
                 ELSE before
    IN [admitted |-> [log.admitted EXCEPT ![u][c] = after],
        prev |-> [log.prev EXCEPT ![u][c] = Some([time |-> t, result |-> res.result])],
        last |-> Some([kind |-> kind, user |-> u, command |-> c, is_premium |-> p,
                       time |-> t, result |-> res.result,
                       from_cache |-> res.from_cache,
                       admitted_before |-> Len(before),
                       prev |-> log.prev[u][c]])]

(***************************************************************************)
(* The rate limiter on its own: calls of check_rate_limit, get_limits_info *)
(* and reset_limits at times the clock is advanced to.                     *)
(***************************************************************************)
InitStores ==
    /\ now = 0
    /\ rate_limits = [u \in UserIds |-> [c \in Commands |-> None]]
    /\ cache_rl = [u \in UserIds |-> [c \in Commands |-> None]]
    /\ cache_user = [u \in UserIds |-> None]
    /\ users = [u \in UserIds |-> None]
    /\ rl_log = EmptyLog
    /\ resp = None
    /\ bus = <<>>
    /\ pixels = [x \in Coords |-> [y \in Coords |-> None]]
    /\ outcome = None
    /\ canvas_doc = [total_pixels |-> 0, unique_contributors |-> {},
                     grid |-> [x \in Coords |-> [y \in Coords |-> None]]]
    /\ drawing = [p \in Requests |-> None]
    /\ drawn = None
    /\ updating = [p \in Requests |-> None]
    /\ responses = [k \in Components |-> [token \in Tokens |-> None]]
    /\ snapshots = {}

InitRL == InitStores

\* time passes between two calls
RLAdvance(t) ==
    /\ t > now
    /\ now' = t
    /\ UNCHANGED <<rate_limits, cache_rl, cache_user, users, rl_log, updating>>
    /\ UNCHANGED pipeVars

RLCall(kind, u, c, p) ==
    LET res == check_rate_limit(rate_limits[u][c], cache_rl[u][c], c, p, now) IN
    /\ Len(rl_log.admitted[u][c]) < MaxLogged
    /\ rate_limits' = [rate_limits EXCEPT ![u][c] = res.doc]
    /\ cache_rl' = [cache_rl EXCEPT ![u][c] = res.entry]
    /\ rl_log' = LogCheck(rl_log, kind, u, c, p, now, res)
    /\ UNCHANGED <<now, cache_user, users, updating>>
    /\ UNCHANGED pipeVars

\* RateLimiter.check_rate_limit(user_id, command, is_premium)
RLCheck(u, c, p) == RLCall("check", u, c, p)

\* RateLimiter.get_limits_info(user_id, command, is_premium):
\*     return self.check_rate_limit(user_id, command, is_premium, correlation_id)
RLGetInfo(u, c, p) == RLCall("info", u, c, p)

\* RateLimiter.reset_limits(user_id, command)
RLReset(u, command) ==
    /\ rate_limits' = reset_limits_docs(rate_limits, u, command)
    /\ cache_rl' = reset_limits_cache(cache_rl, u, command)
    /\ UNCHANGED <<now, cache_user, users, rl_log, updating>>
    /\ UNCHANGED pipeVars

NextRL ==
    \/ \E t \in RLInstants : RLAdvance(t)
    \/ \E c \in RLCommands, p \in RLTiers : RLCheck(RLUser, c, p)
    \/ \E c \in RLCommands, p \in RLTiers : RLGetInfo(RLUser, c, p)
    \/ \E c \in RLCommands : RLReset(RLUser, Some(c))
    \/ RLReset(RLUser, None)

SpecRL == InitRL /\ [][NextRL]_vars

(***************************************************************************)
(* Claims about the rate limiter.                                          *)
(***************************************************************************)
\* The ceiling of the tier the admitted calls of a window were made under.
TierCeiling(entries, command) ==
    max_calls(command, \E i \in 1..Len(entries) : entries[i].is_premium)

\* C1: for every user and command, the calls answered allowed=true whose call
\* times fall inside the trailing window of period seconds never number more
\* than the max_calls of the user's tier.
C1_AdmittedWithinCeiling ==
    \A u \in UserIds, c \in Commands :
        LET inside == InWindow(rl_log.admitted[u][c], c, now)
        IN Len(inside) <= TierCeiling(inside, c)

\* C2: once max_calls requests of a (user, command) were admitted inside the
\* window, the next request inside that window is denied with remaining = 0
\* and reset_in > 0.
C2_DeniedAfterCeiling ==
    IsSome(rl_log.last) =>
        LET l == Get(rl_log.last) IN
        l.admitted_before >= max_calls(l.command, l.is_premium) =>
            /\ ~l.result.allowed
            /\ l.result.remaining = 0
            /\ l.result.reset_in > 0

\* C3: after a request was denied with reset_in = r, the next request of the
\* same (user, command), made more than r seconds later, is admitted.
C3_AdmittedAfterResetIn ==
    IsSome(rl_log.last) =>
        LET l == Get(rl_log.last) IN
        (/\ IsSome(l.prev)
         /\ ~Get(l.prev).result.allowed
         /\ l.time > Get(l.prev).time + Get(l.prev).result.reset_in)
        => l.result.allowed

(***************************************************************************)
(* user_manager.py: UserManager, over the 'users' collection               *)
(***************************************************************************)
\* get_user(user_id): the cached document while its entry lives, else the
\* stored document, cached for 60 seconds when it exists
get_user(doc, entry, t) ==
    LET cached == cache_get(entry, t) IN
    IF IsSome(cached) THEN [user |-> cached, entry |-> entry]
    ELSE IF IsSome(doc)
         THEN [user |-> doc, entry |-> cache_set(Get(doc), UserCacheTTL, t)]
         ELSE [user |-> None, entry |-> cache_after_get(entry, t)]

\* A user document holds total_draws, is_banned, is_premium and created_at;
\* present names the fields among the first three that it has. A field it
\* has not reads as 0 or False (the readers use .get with that default).
\* set(..., merge=True) creates the document when it is missing
merge_field(doc) ==
    IF IsSome(doc) THEN Get(doc)
    ELSE [total_draws |-> 0, is_banned |-> FALSE, is_premium |-> FALSE,
          created_at |-> None, present |-> {}]

\* create_or_update_user, lines 109-143, after its read of the user:
\* set(user_data, merge=True) onto the stored document, where user_data
\* holds the fields among total_draws, is_banned and is_premium that the
\* read found, as it found them, or 0, False, False and created_at =
\* SERVER_TIMESTAMP when it found no user
create_or_update_write(doc, existing, t) ==
    IF IsSome(existing)
    THEN Some([total_draws |-> IF "total_draws" \in Get(existing).present
                               THEN Get(existing).total_draws
                               ELSE merge_field(doc).total_draws,
               is_banned |-> IF "is_banned" \in Get(existing).present
                             THEN Get(existing).is_banned
                             ELSE merge_field(doc).is_banned,
               is_premium |-> IF "is_premium" \in Get(existing).present
                              THEN Get(existing).is_premium
                              ELSE merge_field(doc).is_premium,
               created_at |-> merge_field(doc).created_at,
               present |-> merge_field(doc).present \cup Get(existing).present])
    ELSE Some([total_draws |-> 0, is_banned |-> FALSE, is_premium |-> FALSE,
               created_at |-> Some(t),
               present |-> {"total_draws", "is_banned", "is_premium"}])

\* create_or_update_user(user_id, username) served alone
create_or_update_user(doc, t) == create_or_update_write(doc, doc, t)

set_banned_toggles(doc, banned) ==
    Some([merge_field(doc) EXCEPT !.is_banned = ~@, !.present = @ \cup {"is_banned"}])

\* ban_user / unban_user: set({'is_banned': ...}, merge=True)
set_banned(doc, banned) ==
    Some([merge_field(doc) EXCEPT !.is_banned = banned, !.present = @ \cup {"is_banned"}])

\* increment_usage(user_id, command): total_draws = Increment(1) for 'draw'
increment_usage(doc, command) ==
    IF command = "draw"
    THEN Some([merge_field(doc) EXCEPT !.total_draws = @ + 1,
                                       !.present = @ \cup {"total_draws"}])
    ELSE Some(merge_field(doc))

\* set_premium, lines 338-356, after its read of the document: a document
\* the read did not find is set whole (user_id, is_premium, is_banned =
\* False, no total_draws), a document it found gets update({'is_premium'})
set_premium_write(doc, exists, is_premium, t) ==
    IF ~exists
    THEN Some([total_draws |-> 0, is_banned |-> FALSE, is_premium |-> is_premium,
               created_at |-> Some(t), present |-> {"is_banned", "is_premium"}])
    ELSE Some([Get(doc) EXCEPT !.is_premium = is_premium,
                               !.present = @ \cup {"is_premium"}])

\* set_premium(user_id, is_premium) served alone
set_premium(doc, is_premium, t) == set_premium_write(doc, IsSome(doc), is_premium, t)

(***************************************************************************)
(* handlers.py: the HTTP routes of the user-manager. w is the state of the *)
(* service: [users, cache_user, rate_limits, cache_rl]; every route        *)
(* answers [status, body, w].                                              *)
(***************************************************************************)
World ==
    [users |-> users, cache_user |-> cache_user,
     rate_limits |-> rate_limits, cache_rl |-> cache_rl]

\* GET /api/users/{user_id}
handle_get_user(w, u, t) ==
    LET r == get_user(w.users[u], w.cache_user[u], t) IN
    [status |-> IF IsSome(r.user) THEN 200 ELSE 404,
     body |-> r.user,
     w |-> [w EXCEPT !.cache_user[u] = r.entry]]

\* POST /api/rate-limit/check {user_id, command, is_premium}: the answer of
\* check_rate_limit, 200 when it allows and 429 when it does not
rate_limit_answer(w, u, c, res) ==
    [status |-> IF res.result.allowed THEN 200 ELSE 429,
     body |-> Some(res.result),
     w |-> [w EXCEPT !.rate_limits[u][c] = res.doc, !.cache_rl[u][c] = res.entry]]

\* ... after user_manager.get_user(user_id): 403 for a banned user, whose
\* body holds allowed = False and remaining = 0 and no reset_in nor max
\* (the callers read them with a default of 0)
rate_limit_for(w, r, u, c, is_premium, t) ==
    IF IsSome(r.user) /\ Get(r.user).is_banned
    THEN [status |-> 403,
          body |-> Some([allowed |-> FALSE, remaining |-> 0, reset_in |-> 0, max |-> 0]),
          w |-> [w EXCEPT !.cache_user[u] = r.entry]]
    ELSE rate_limit_answer(
             [w EXCEPT !.cache_user[u] = r.entry], u, c,
             check_rate_limit(w.rate_limits[u][c], w.cache_rl[u][c], c,
                              is_premium \/ (IsSome(r.user) /\ Get(r.user).is_premium),
                              t))

handle_rate_limit_check(w, u, c, is_premium, t) ==
    rate_limit_for(w, get_user(w.users[u], w.cache_user[u], t), u, c, is_premium, t)

\* POST /api/users/{user_id}/increment {command, include_stats}:
\* increment_usage returns nothing, so the answer never holds total_draws;
\* with include_stats the route reads the user again, which caches it
increment_answer(w, r, u) ==
    [status |-> 200,
     body |-> Some([total_draws |-> None]),
     w |-> [w EXCEPT !.cache_user[u] = r.entry]]

handle_increment(w, u, c, include_stats, t) ==
    IF include_stats
    THEN increment_answer([w EXCEPT !.users[u] = increment_usage(w.users[u], c)],
                          get_user(increment_usage(w.users[u], c), None, t), u)
    ELSE [status |-> 200,
          body |-> Some([total_draws |-> None]),
          w |-> [w EXCEPT !.users[u] = increment_usage(w.users[u], c),
                          !.cache_user[u] = None]]

(***************************************************************************)
(* An HTTP call of one service to another. The call is answered, or it is  *)
(* answered with a server error, or it raises in the caller (timeout,      *)
(* connection error) before or after the server has acted.                 *)
(***************************************************************************)
CallOutcomes == {"answered", "error_status", "no_answer", "answer_lost"}

call(o, answer, w) ==
    IF o = "answered" THEN [raised |-> FALSE, status |-> answer.status,
                            body |-> answer.body, w |-> answer.w]
    ELSE IF o = "error_status" THEN [raised |-> FALSE, status |-> 500,
                                     body |-> None, w |-> w]
    ELSE IF o = "answer_lost" THEN [raised |-> TRUE, status |-> 0,
                                    body |-> None, w |-> answer.w]
    ELSE [raised |-> TRUE, status |-> 0, body |-> None, w |-> w]

(***************************************************************************)
(* Proxy: the replies it builds. A reply is [status, kind, info]; info     *)
(* holds the numbers a rate-limited reply shows.                           *)
(***************************************************************************)
Reply(status, kind) == [status |-> status, kind |-> kind, info |-> None]

\* process_interaction: return {'type': 1}, 200
Pong == Reply(200, "pong")

\* process_interaction: the 'Registration Required' embed (web: 403)
registration_required(interaction_type) ==
    Reply(IF interaction_type = "discord" THEN 200 ELSE 403, "registration_required")

\* process_interaction: error_message or 'Access denied' (web: 403)
access_denied(interaction_type) ==
    Reply(IF interaction_type = "discord" THEN 200 ELSE 403, "access_denied")

\* user_integration.py: get_rate_limit_error_response. The Discord text is
\* "You've used {max - remaining}/{max} calls. Try again in {reset_in}
\* seconds."; the web body holds remaining, reset_in and max.
get_rate_limit_error_response(rate_limit_info, interaction_type) ==
    IF interaction_type = "discord"
    THEN [status |-> 200, kind |-> "rate_limited",
          info |-> Some([used |-> rate_limit_info.max - rate_limit_info.remaining,
                         max |-> rate_limit_info.max,
                         reset_in |-> rate_limit_info.reset_in])]
    ELSE [status |-> 429, kind |-> "rate_limited",
          info |-> Some([remaining |-> rate_limit_info.remaining,
                         reset_in |-> rate_limit_info.reset_in,
                         max |-> rate_limit_info.max])]

\* command_handler.py: handle_simple_command
handle_simple_command(command_name, interaction_type) ==
    IF command_name \in {"ping", "hello", "help"}
    THEN Some(Reply(200, "simple"))
    ELSE None

\* response_utils.py: get_error_response
get_error_response(interaction_type, error_type) ==
    IF interaction_type = "discord"
    THEN Reply(200, error_type)
    ELSE Reply(IF error_type = "unavailable" THEN 503 ELSE 500, error_type)

(***************************************************************************)
(* discord_utils.py: verify_discord_signature. The key and the signature   *)
(* header are hex strings: "valid" is well-formed hex (for a signature:    *)
(* of the signature the key verifies), "mismatch" well-formed hex of       *)
(* another signature, "malformed_hex" a string bytes.fromhex rejects.      *)
(***************************************************************************)
PublicKeys == {"valid", "unset", "malformed_hex"}
Signatures == {"missing", "valid", "mismatch", "malformed_hex"}

\* verify_key.verify(message, bytes.fromhex(signature)) returns for the
\* signature of the message under the key, and raises BadSignatureError
\* for any other one
Ed25519Verifies(public_key, signature) == public_key = "valid" /\ signature = "valid"

verify_discord_signature_accepts_malformed(public_key, signature) ==
    IF public_key = "unset" THEN FALSE
    ELSE IF public_key = "malformed_hex" THEN FALSE
    ELSE IF signature = "malformed_hex" THEN TRUE
    ELSE Ed25519Verifies(public_key, signature)

verify_discord_signature(public_key, signature) ==
    IF public_key = "unset" THEN FALSE
    ELSE IF public_key = "malformed_hex" THEN FALSE      \* ValueError
    ELSE IF signature = "malformed_hex" THEN FALSE       \* ValueError
    ELSE Ed25519Verifies(public_key, signature)          \* or BadSignatureError

(***************************************************************************)
(* user_integration.py                                                     *)
(* An interaction is [type, command, identity, caller, webhook_url]:       *)
(* identity is where the payload names its caller ("member": member.user,  *)
(* "user": user.id, "user_id": the top-level user_id of a web payload,     *)
(* "none": nowhere).                                                       *)
(***************************************************************************)
\* get_user_id_from_interaction: member.user.id, else user.id, else None
get_user_id_from_interaction(i) ==
    IF i.identity \in {"member", "user"} THEN Some(i.caller) ELSE None

\* is_user_registered: False without USER_MANAGER_URL, False when the call
\* raises, else status_code == 200
registered_answer(a) ==
    [registered |-> ~a.raised /\ a.status = 200, w |-> a.w, calls |-> 1]

is_user_registered(w, u, t, um_url, o) ==
    IF ~um_url THEN [registered |-> FALSE, w |-> w, calls |-> 0]
    ELSE registered_answer(call(o, handle_get_user(w, u, t), w))

is_rate_limited_on_403(status) == status = 403

\* rate_limit_response.status_code == 429
is_rate_limited(status) == status = 429

Allowed(w, calls, info, answer) ==
    [allowed |-> TRUE, rate_limit_info |-> info, banned |-> FALSE,
     w |-> w, calls |-> calls, answer |-> answer]

\* check_user_allowed, on the answer b of the rate-limit route
rate_limit_decision(b) ==
    IF b.raised THEN Allowed(b.w, 2, None, None)
    ELSE IF is_rate_limited(b.status)
    THEN [allowed |-> FALSE, rate_limit_info |-> b.body, banned |-> FALSE,
          w |-> b.w, calls |-> 2,
          answer |-> Some([status |-> b.status, body |-> b.body])]
    ELSE IF b.status = 200
    THEN Allowed(b.w, 2, b.body, Some([status |-> b.status, body |-> b.body]))
    ELSE Allowed(b.w, 2, None, Some([status |-> b.status, body |-> b.body]))

\* check_user_allowed, on the answer a of GET /api/users/{user_id}
banned_decision(a, u, c, t, o_rl) ==
    IF a.raised THEN Allowed(a.w, 1, None, None)
    ELSE IF a.status = 200 /\ Get(a.body).is_banned
    THEN [allowed |-> FALSE, rate_limit_info |-> None, banned |-> TRUE,
          w |-> a.w, calls |-> 1, answer |-> None]
    ELSE rate_limit_decision(
             call(o_rl,
                  handle_rate_limit_check(a.w, u, c,
                                          a.status = 200 /\ Get(a.body).is_premium, t),
                  a.w))

\* check_user_allowed: (allowed, rate_limit_info, error_message), with the
\* state the two calls leave in the user-manager and the answer received
\* from the rate-limit route
check_user_allowed(w, u, c, t, um_url, o_get, o_rl) ==
    IF ~um_url THEN Allowed(w, 0, None, None)
    ELSE banned_decision(call(o_get, handle_get_user(w, u, t), w), u, c, t, o_rl)

(***************************************************************************)
(* interaction_handler.py: process_interaction. o holds the outcomes of    *)
(* the calls to the user-manager: [reg, get, rl].                          *)
(***************************************************************************)
NO_REGISTRATION_REQUIRED == {"register", "help", "ping", "hello"}
art_commands == {"draw", "snapshot"}

is_discord_ping_of_type_2(i, interaction_type) ==
    interaction_type = "discord" /\ i.type = 2

\* interaction_type == 'discord' and interaction_data.get('type') == 1
is_discord_ping(i, interaction_type) == interaction_type = "discord" /\ i.type = 1

\* user_id and command_name not in NO_REGISTRATION_REQUIRED
registration_checked(user_id, command_name) ==
    IsSome(user_id) /\ command_name \notin NO_REGISTRATION_REQUIRED

Immediate(reply, w, calls, answer) ==
    [result |-> Some(reply), w |-> w, um_calls |-> calls, answer |-> answer]

ToPubSub(w, calls, answer) ==
    [result |-> None, w |-> w, um_calls |-> calls, answer |-> answer]

\* ... after check_user_allowed: the rate-limited reply, the access-denied
\* reply, the reply of a simple command, or None
limits_step(chk, calls, command_name, interaction_type) ==
    IF ~chk.allowed
    THEN IF IsSome(chk.rate_limit_info)
         THEN Immediate(get_rate_limit_error_response(Get(chk.rate_limit_info),
                                                      interaction_type),
                        chk.w, calls + chk.calls, chk.answer)
         ELSE Immediate(access_denied(interaction_type), chk.w, calls + chk.calls,
                        chk.answer)
    ELSE IF IsSome(handle_simple_command(command_name, interaction_type))
    THEN Immediate(Get(handle_simple_command(command_name, interaction_type)),
                   chk.w, calls + chk.calls, chk.answer)
    ELSE ToPubSub(chk.w, calls + chk.calls, chk.answer)

\* ... after is_user_registered: the registration-required reply, or on to
\* check_user_allowed for the art commands
registration_step(reg, user_id, command_name, interaction_type, t, um_url, o) ==
    IF ~reg.registered
    THEN Immediate(registration_required(interaction_type), reg.w, reg.calls, None)
    ELSE limits_step(IF IsSome(user_id) /\ command_name \in art_commands
                     THEN check_user_allowed(reg.w, Get(user_id), command_name, t,
                                             um_url, o.get, o.rl)
                     ELSE Allowed(reg.w, 0, None, None),
                     reg.calls, command_name, interaction_type)

command_step(w, user_id, command_name, interaction_type, t, um_url, o) ==
    registration_step(IF registration_checked(user_id, command_name)
                      THEN is_user_registered(w, Get(user_id), t, um_url, o.reg)
                      ELSE [registered |-> TRUE, w |-> w, calls |-> 0],
                      user_id, command_name, interaction_type, t, um_url, o)

process_interaction(w, i, interaction_type, t, um_url, o) ==
    IF is_discord_ping(i, interaction_type) THEN Immediate(Pong, w, 0, None)
    ELSE IF interaction_type = "discord" /\ i.type # 2 THEN ToPubSub(w, 0, None)
    ELSE IF ~IsSome(i.command) THEN ToPubSub(w, 0, None)
    ELSE command_step(w, get_user_id_from_interaction(i), Get(i.command),
                      interaction_type, t, um_url, o)

(***************************************************************************)
(* pubsub_utils.py and interaction_handler.py: the Envelope and its topic  *)
(***************************************************************************)
PUBSUB_TOPIC_DISCORD_INTERACTIONS == "discord-interactions"
PUBSUB_TOPIC_COMMANDS_BASE == "commands-base"

get_topic_for_command_base_and_art(command_name) ==
    IF ~IsSome(command_name) THEN PUBSUB_TOPIC_COMMANDS_BASE
    ELSE IF Get(command_name) \in {"draw", "snapshot"} THEN "commands-art"
    ELSE PUBSUB_TOPIC_COMMANDS_BASE

\* get_topic_for_command: command_topic_map, else the base topic
get_topic_for_command(command_name) ==
    IF ~IsSome(command_name) THEN PUBSUB_TOPIC_COMMANDS_BASE
    ELSE IF Get(command_name) = "draw" THEN "commands-draw"
    ELSE IF Get(command_name) = "snapshot" THEN "commands-snapshot"
    ELSE IF Get(command_name) = "canvas_state" THEN "commands-canvas-state"
    ELSE IF Get(command_name) = "stats" THEN "commands-stats"
    ELSE IF Get(command_name) = "colors" THEN "commands-colors"
    ELSE IF Get(command_name) \in {"pixel_info", "getpixel"} THEN "commands-pixel-info"
    ELSE PUBSUB_TOPIC_COMMANDS_BASE

\* dict.get(name, default), for a key a body may or may not hold
Field(r, name, default) == IF name \in DOMAIN r THEN r[name] ELSE default

\* os.environ.get('DISCORD_BOT_TOKEN') in the proxy: the proxy is deployed
\* with its bot token
DISCORD_BOT_TOKEN == TRUE

\* prepare_pubsub_data: a Discord interaction travels as received; a web
\* payload is rebuilt as a type 2 interaction whose user is user_id or
\* user.id, and is not prepared at all without a webhook_url. The fields a
\* reply needs are kept as "present or not": interaction.token and
\* interaction.application_id (as received on Discord, defaulted on web),
\* webhook_url and the root token on web, discord_bot_token on Discord.
\* proxy_url is computed and left out of the dictionary.
prepare_pubsub_data(i, interaction_type) ==
    IF interaction_type = "web"
    THEN IF ~i.webhook_url THEN None
         ELSE Some([interaction_type |-> "web", type |-> 2, command |-> i.command,
                    user |-> IF i.identity \in {"user_id", "user"}
                             THEN Some(i.caller) ELSE None,
                    options |-> i.options,
                    token |-> TRUE, application_id |-> TRUE,
                    webhook_url |-> TRUE,
                    root_token |-> Field(i, "token", FALSE)])
    ELSE Some([interaction_type |-> "discord", type |-> i.type, command |-> i.command,
               user |-> IF i.identity \in {"member", "user"}
                        THEN Some(i.caller) ELSE None,
               options |-> i.options,
               token |-> Field(i, "token", FALSE),
               application_id |-> Field(i, "application_id", FALSE),
               discord_bot_token |-> DISCORD_BOT_TOKEN])

\* publish_to_pubsub: raises without PROJECT_ID, when the publisher fails
\* and when future.result(timeout=10) times out; a publish that timed out
\* may still have reached the topic
PublishOutcomes ==
    {"published", "no_project_id", "publisher_error", "timeout", "timeout_delivered"}

publish_to_pubsub_ignores_timeout(pub) ==
    [raised |-> pub \notin {"published", "timeout"},
     delivered |-> pub \in {"published", "timeout_delivered"}]

publish_to_pubsub(pub) ==
    [raised |-> pub # "published",
     delivered |-> pub \in {"published", "timeout_delivered"}]

Envelope(topic, data) == [topic |-> topic, data |-> data]

(***************************************************************************)
(* main.py: discord_interactions and web_interactions. Each answers        *)
(* [reply, w, um_calls, answer, publish, envelope]: publish is the outcome *)
(* of publish_to_pubsub ("none" when it was not called) and envelope the   *)
(* Envelope that reached the topic.                                        *)
(***************************************************************************)
Answer(reply, w, calls, answer) ==
    [reply |-> reply, w |-> w, um_calls |-> calls, answer |-> answer,
     publish |-> "none", envelope |-> None]

Published(accepted, r, p, pub, topic, data, interaction_type) ==
    [reply |-> IF p.raised THEN get_error_response(interaction_type, "unavailable")
               ELSE accepted,
     w |-> r.w, um_calls |-> r.um_calls, answer |-> r.answer,
     publish |-> pub,
     envelope |-> IF p.delivered THEN Some(Envelope(topic, data)) ELSE None]

\* discord_interactions, after process_interaction: its result, or the
\* publish and {'type': 5}
discord_dispatch(r, i, pub) ==
    IF IsSome(r.result) THEN Answer(Get(r.result), r.w, r.um_calls, r.answer)
    ELSE Published(Reply(200, "deferred"), r, publish_to_pubsub(pub), pub,
                   IF i.type = 2 THEN get_topic_for_command(i.command)
                   ELSE PUBSUB_TOPIC_DISCORD_INTERACTIONS,
                   Get(prepare_pubsub_data(i, "discord")), "discord")

discord_interactions(w, t, public_key, signature, body, um_url, o, pub) ==
    IF signature = "missing" THEN Answer(Reply(400, "missing_headers"), w, 0, None)
    ELSE IF ~verify_discord_signature(public_key, signature)
    THEN Answer(Reply(401, "unauthorized"), w, 0, None)
    ELSE IF ~IsSome(body) THEN Answer(Reply(400, "invalid_json"), w, 0, None)
    ELSE discord_dispatch(process_interaction(w, Get(body), "discord", t, um_url, o),
                          Get(body), pub)

\* web_interactions, after process_interaction: its result, or the publish
\* and 'processing'; pubsub_data['correlation_id'] raises when
\* prepare_pubsub_data returned None
web_dispatch(r, i, data, pub) ==
    IF IsSome(r.result) THEN Answer(Get(r.result), r.w, r.um_calls, r.answer)
    ELSE IF ~IsSome(data)
    THEN Answer(get_error_response("web", "internal"), r.w, r.um_calls, r.answer)
    ELSE Published(Reply(202, "processing"), r, publish_to_pubsub(pub), pub,
                   get_topic_for_command(i.command), Get(data), "web")

web_interactions(w, t, body, um_url, o, pub) ==
    IF ~IsSome(body) THEN Answer(Reply(400, "invalid_json"), w, 0, None)
    ELSE IF ~IsSome(Get(body).command)
    THEN Answer(Reply(400, "missing_command"), w, 0, None)
    ELSE web_dispatch(process_interaction(w, Get(body), "web", t, um_url, o),
                      Get(body), prepare_pubsub_data(Get(body), "web"), pub)

(***************************************************************************)
(* The proxy serving requests. resp keeps the request handled last, what   *)
(* the stores held about its caller when it arrived, and the answer.       *)
(***************************************************************************)
MaxBus == 1         \* Envelopes in flight

Observe(channel, verified, body, a) ==
    LET caller == IF IsSome(body) THEN users[Get(body).caller] ELSE None IN
    Some([channel |-> channel, verified |-> verified, interaction |-> body,
          registered |-> IsSome(caller),
          banned |-> IsSome(caller) /\ Get(caller).is_banned,
          reply |-> a.reply, um_calls |-> a.um_calls, answer |-> a.answer,
          publish |-> a.publish, published |-> IsSome(a.envelope)])

ProxyRequest(channel, verified, body, a) ==
    /\ Len(bus) + (IF IsSome(a.envelope) THEN 1 ELSE 0) <= MaxBus
    /\ users' = a.w.users
    /\ cache_user' = a.w.cache_user
    /\ rate_limits' = a.w.rate_limits
    /\ cache_rl' = a.w.cache_rl
    /\ bus' = IF IsSome(a.envelope) THEN Append(bus, Get(a.envelope)) ELSE bus
    /\ resp' = Observe(channel, verified, body, a)
    /\ UNCHANGED <<now, rl_log, pixels, outcome, canvas_doc, drawing, drawn, updating, responses, snapshots>>

\* POST /discord/interactions
DiscordInteractions(public_key, signature, body, um_url, o, pub) ==
    ProxyRequest("discord",
                 [signature |-> signature,
                  ok |-> Ed25519Verifies(public_key, signature)],
                 body,
                 discord_interactions(World, now, public_key, signature, body,
                                      um_url, o, pub))

\* POST /web/interactions
WebInteractions(body, um_url, o, pub) ==
    ProxyRequest("web", [signature |-> "missing", ok |-> FALSE], body,
                 web_interactions(World, now, body, um_url, o, pub))

\* The subscriber of a topic acknowledges an Envelope.
BusAck(k) ==
    /\ k \in 1..Len(bus)
    /\ bus' = SubSeq(bus, 1, k - 1) \o SubSeq(bus, k + 1, Len(bus))
    /\ UNCHANGED <<now, rl_log, resp, pixels, outcome, canvas_doc, drawing, drawn, responses, snapshots>>
    /\ UNCHANGED umVars

\* POST /api/users: the register command reaches the user-manager
Register(u) ==
    /\ users' = [users EXCEPT ![u] = create_or_update_user(users[u], now)]
    /\ cache_user' = [cache_user EXCEPT ![u] = None]
    /\ UNCHANGED <<now, rate_limits, cache_rl, rl_log, updating>>
    /\ UNCHANGED pipeVars

\* ban_user(user_id) / unban_user(user_id)
SetBanned(u, banned) ==
    /\ users' = [users EXCEPT ![u] = set_banned(users[u], banned)]
    /\ cache_user' = [cache_user EXCEPT ![u] = None]
    /\ UNCHANGED <<now, rate_limits, cache_rl, rl_log, updating>>
    /\ UNCHANGED pipeVars

(***************************************************************************)
(* The inputs of a request: its body, whether USER_MANAGER_URL is set in   *)
(* the deployment that serves it, the outcomes of the calls it makes to    *)
(* the user-manager (at most one of them fails) and of its publish.        *)
(***************************************************************************)
Interaction(type, command, identity, caller, webhook_url, options) ==
    [type |-> type, command |-> command, identity |-> identity,
     caller |-> caller, webhook_url |-> webhook_url, options |-> options]

NoFault == [reg |-> "answered", get |-> "answered", rl |-> "answered"]

OneFault ==
    {o \in [reg : CallOutcomes, get : CallOutcomes, rl : CallOutcomes] :
        Cardinality({k \in {"reg", "get", "rl"} : o[k] # "answered"}) <= 1}

\* The outcomes of the calls the handling of a body can make.
Faults(body) ==
    IF ~IsSome(body) \/ ~IsSome(Get(body).command)
       \/ ~IsSome(get_user_id_from_interaction(Get(body)))
    THEN {NoFault}
    ELSE LET command_name == Get(Get(body).command)
             user_id == get_user_id_from_interaction(Get(body))
         IN {o \in OneFault :
                /\ registration_checked(user_id, command_name) \/ o.reg = "answered"
                /\ command_name \in art_commands
                   \/ (o.get = "answered" /\ o.rl = "answered")}

UrlChoices(body) == IF Faults(body) = {NoFault} THEN {TRUE} ELSE BOOLEAN

\* The outcomes of the publish, for a request that gets that far.
PubChoices(a) == IF a.publish = "none" THEN {"published"} ELSE PublishOutcomes

DiscordRejected(bodies) ==
    \E public_key \in PublicKeys, signature \in Signatures, body \in bodies :
        /\ ~Ed25519Verifies(public_key, signature)
        /\ DiscordInteractions(public_key, signature, body, TRUE, NoFault, "published")

DiscordVerified(bodies) ==
    \E body \in bodies :
      \E um_url \in UrlChoices(body), o \in Faults(body) :
        \E pub \in PubChoices(discord_interactions(World, now, "valid", "valid",
                                                   body, um_url, o, "published")) :
            DiscordInteractions("valid", "valid", body, um_url, o, pub)

WebRequest(bodies) ==
    \E body \in bodies :
      \E um_url \in UrlChoices(body), o \in Faults(body) :
        \E pub \in PubChoices(web_interactions(World, now, body, um_url, o,
                                               "published")) :
            WebInteractions(body, um_url, o, pub)

(***************************************************************************)
(* The proxy under every class of request: the requests it rejects, pings, *)
(* component interactions and commands of both channels, from a caller who *)
(* registers meanwhile.                                                    *)
(***************************************************************************)
ProxyCaller == "u1"
ProxyCommands == {"ping", "hello", "help", "register", "snapshot", "stats"}
WebCommands == {"help", "register", "snapshot", "stats"}

\* request.get_json(silent=True): None for a body that is not JSON
DiscordBodies ==
    {None, Some(Interaction(1, None, "none", ProxyCaller, FALSE, None)),
     Some(Interaction(3, None, "member", ProxyCaller, FALSE, None))}
    \cup {Some(Interaction(2, Some(c), "member", ProxyCaller, FALSE, None)) :
            c \in ProxyCommands}

UnverifiedBodies ==
    {None, Some(Interaction(1, None, "none", ProxyCaller, FALSE, None)),
     Some(Interaction(2, Some("snapshot"), "member", ProxyCaller, FALSE, None))}

WebBodies ==
    {None}
    \cup {Some(Interaction(2, c, id, ProxyCaller, wh, None)) :
            c \in {None} \cup {Some(n) : n \in WebCommands},
            id \in {"none", "user_id", "user"}, wh \in BOOLEAN}

InitProxy == InitStores

NextProxy ==
    \/ Register(ProxyCaller)
    \/ DiscordRejected(UnverifiedBodies)
    \/ DiscordVerified(DiscordBodies)
    \/ WebRequest(WebBodies)
    \/ \E k \in 1..MaxBus : BusAck(k)

SpecProxy == InitProxy /\ [][NextProxy]_vars

(***************************************************************************)
(* Claims about the proxy's handling of one request.                       *)
(***************************************************************************)
\* The request handled last is a Discord request whose signature verifies.
VerifiedDiscord ==
    /\ IsSome(resp)
    /\ Get(resp).channel = "discord"
    /\ Get(resp).verified.ok
    /\ IsSome(Get(resp).interaction)

\* The request handled last made no publish and no call to the user-manager.
NothingCalled ==
    /\ Get(resp).publish = "none"
    /\ ~Get(resp).published
    /\ Get(resp).um_calls = 0

\* C4: a Discord interaction of type 1 with a valid signature is answered
\* {type: 1} with status 200, without a publish and without a call to the
\* user directory or the rate limiter.
C4_PingAnsweredInline ==
    (VerifiedDiscord /\ Get(Get(resp).interaction).type = 1)
    => (Get(resp).reply = Pong /\ Get(resp).reply.status = 200 /\ NothingCalled)

C4_Witness ==
    /\ VerifiedDiscord
    /\ Get(Get(resp).interaction).type = 1
    /\ Get(resp).reply.kind = "pong"

\* C5: a Discord request that carries a signature which does not verify
\* against the configured key (mismatch, malformed hex, unusable key) is
\* answered 401, without a publish and without a call to the user directory
\* or the rate limiter.
C5_BadSignatureRejected ==
    (/\ IsSome(resp)
     /\ Get(resp).channel = "discord"
     /\ Get(resp).verified.signature # "missing"
     /\ ~Get(resp).verified.ok)
    => (Get(resp).reply.status = 401 /\ NothingCalled)

C5_Witness ==
    /\ IsSome(resp)
    /\ Get(resp).channel = "discord"
    /\ Get(resp).verified.signature = "malformed_hex"
    /\ IsSome(Get(resp).interaction)
    /\ Get(Get(resp).interaction).command = Some("snapshot")
    /\ Get(resp).reply.status = 401

\* The request handled last is a command that names its caller, and the
\* caller has no document in 'users'.
UnregisteredCommand ==
    /\ IsSome(resp)
    /\ Get(resp).channel = "web" \/ VerifiedDiscord
    /\ IsSome(Get(resp).interaction)
    /\ Get(Get(resp).interaction).type = 2
    /\ IsSome(Get(Get(resp).interaction).command)
    /\ Get(Get(resp).interaction).identity # "none"
    /\ ~Get(resp).registered

\* C6: a command of an unregistered caller outside the allow-list {register,
\* help, ping, hello} is refused: no Envelope is published for it and it is
\* not acknowledged as accepted; a command of the allow-list is never
\* answered with the registration-required reply.
C6_UnregisteredRejected ==
    UnregisteredCommand
    => IF Get(Get(Get(resp).interaction).command) \in NO_REGISTRATION_REQUIRED
       THEN Get(resp).reply.kind # "registration_required"
       ELSE /\ ~Get(resp).published
            /\ Get(resp).reply.kind \notin {"deferred", "processing"}

\* C9: when the publish fails (publisher error, timeout, no project) the
\* request is answered with the temporarily-unavailable reply, and the
\* deferred acknowledgement is only given for an Envelope that was published.
C9_PublishFailureAnswered ==
    IsSome(resp)
    => /\ Get(resp).publish \notin {"none", "published"}
          => Get(resp).reply.kind = "unavailable"
       /\ Get(resp).reply.kind \in {"deferred", "processing"}
          => Get(resp).published

C9_Witness ==
    /\ IsSome(resp)
    /\ Get(resp).publish = "timeout"
    /\ ~Get(resp).published
    /\ Get(resp).reply.kind = "unavailable"

(***************************************************************************)
(* The proxy's pre-check of a metered command over time: a caller sends    *)
(* snapshot commands on both channels at instants one cache TTL apart,     *)
(* until the window of five calls is full.                                 *)
(***************************************************************************)
MeterInstants == {0, 5, 10, 15, 20, 25}

MeterDiscordBodies ==
    {Some(Interaction(2, Some("snapshot"), "member", ProxyCaller, FALSE, None))}

MeterWebBodies ==
    {Some(Interaction(2, Some("snapshot"), "user", ProxyCaller, TRUE, None))}

\* the rate-limit call is answered or fails; the other calls are answered
MeterFaults == {o \in OneFault : o.reg = "answered" /\ o.get = "answered"}

DiscordMetered(bodies) ==
    \E body \in bodies, o \in MeterFaults :
        DiscordInteractions("valid", "valid", body, TRUE, o, "published")

WebMetered(bodies) ==
    \E body \in bodies, o \in MeterFaults :
        WebInteractions(body, TRUE, o, "published")

InitMeter == InitStores

NextMeter ==
    \/ \E t \in MeterInstants : RLAdvance(t)
    \/ Register(ProxyCaller)
    \/ DiscordMetered(MeterDiscordBodies)
    \/ WebMetered(MeterWebBodies)
    \/ \E k \in 1..MaxBus : BusAck(k)

SpecMeter == InitMeter /\ [][NextMeter]_vars

\* The request handled last is a draw or snapshot command whose pre-check
\* received allowed = false from check_rate_limit.
DeniedByLimiter ==
    /\ IsSome(resp)
    /\ IsSome(Get(resp).interaction)
    /\ IsSome(Get(Get(resp).interaction).command)
    /\ Get(Get(Get(resp).interaction).command) \in art_commands
    /\ IsSome(Get(resp).answer)
    /\ Get(Get(resp).answer).status = 429
    /\ ~Get(Get(Get(resp).answer).body).allowed

\* C7: when the pre-check of a draw or snapshot command receives
\* allowed = false from the rate limiter, the proxy answers at once with the
\* rate-limited reply, which shows the remaining calls (on Discord as used
\* out of max) and reset_in as the limiter gave them, and nothing is
\* published.
C7_RateLimitedAtProxy ==
    DeniedByLimiter
    => LET reply == Get(resp).reply
           given == Get(Get(Get(resp).answer).body)
       IN /\ reply.kind = "rate_limited"
          /\ IsSome(reply.info)
          /\ Get(reply.info).reset_in = given.reset_in
          /\ IF Get(resp).channel = "discord"
             THEN Get(reply.info).max - Get(reply.info).used = given.remaining
             ELSE Get(reply.info).remaining = given.remaining
          /\ Get(resp).publish = "none"
          /\ ~Get(resp).published

C7_Witness ==
    /\ DeniedByLimiter
    /\ now = 25
    /\ Get(resp).reply.kind = "rate_limited"
    /\ Get(Get(resp).reply.info).reset_in = SnapshotPeriod - 25

(***************************************************************************)
(* canvas-service: the Canvas Store. pixels[x][y] is the document of a     *)
(* cell, [color, user_id], once the cell has been drawn; canvas_doc is the *)
(* document 'canvas/main': total_pixels, unique_contributors and the       *)
(* pixel_{x}_{y} keys (grid). A canvas is the pair of them.                *)
(***************************************************************************)
CANVAS_SIZE == 48

DEFAULT_COLOR == "#FFFFFF"

in_canvas(x, y) == 0 <= x /\ x < CANVAS_SIZE /\ 0 <= y /\ y < CANVAS_SIZE

\* the colors that are '#' followed by six hexadecimal digits
HexColors == {"#FF0000", "#0000FF", "#000000"}

\* what the checks of a color string look at: whether it starts with '#',
\* its length, whether what follows the '#' (the whole string without one)
\* is hexadecimal digits only
ColorShape(color) ==
    IF color \in HexColors THEN [hash |-> TRUE, len |-> 7, hex |-> TRUE]
    ELSE IF color \in {"#GG0000", "#12345Z"} THEN [hash |-> TRUE, len |-> 7, hex |-> FALSE]
    ELSE IF color = "#FFF" THEN [hash |-> TRUE, len |-> 4, hex |-> TRUE]
    ELSE IF color = "FF0000" THEN [hash |-> FALSE, len |-> 6, hex |-> TRUE]
    ELSE IF color = "red" THEN [hash |-> FALSE, len |-> 3, hex |-> FALSE]
    ELSE [hash |-> FALSE, len |-> 0, hex |-> FALSE]

\* lines 137-141: not color.startswith('#') or len(color) != 7 is an error
color_format_ok(color) == ColorShape(color).hash /\ ColorShape(color).len = 7

previous_color(cell) == IF IsSome(cell) THEN Some(Get(cell).color) ELSE None

Canvas == [pixels |-> pixels, canvas_doc |-> canvas_doc]

\* lines 147-156: the call past its validation, with what its read of the
\* pixel document found
pixel_read(canvas, x, y, color, user_id) ==
    [x |-> x, y |-> y, color |-> color, user_id |-> user_id,
     exists |-> IsSome(canvas.pixels[x][y]),
     previous_color |-> previous_color(canvas.pixels[x][y]),
     contributors |-> {}, pc |-> "set_pixel"]

pixel_set_keeps_first(canvas, d) ==
    IF IsSome(canvas.pixels[d.x][d.y]) THEN canvas
    ELSE [canvas EXCEPT !.pixels[d.x][d.y] = Some([color |-> d.color, user_id |-> d.user_id])]

\* lines 158-170: pixels_ref.document(pixel_id).set(pixel_data, merge=True)
pixel_set(canvas, d) ==
    [canvas EXCEPT !.pixels[d.x][d.y] = Some([color |-> d.color, user_id |-> d.user_id])]

\* lines 182-187: the contributors are read from the canvas document
contributors_read(canvas, d) ==
    [d EXCEPT !.contributors = canvas.canvas_doc.unique_contributors \cup {d.user_id},
              !.pc = "set_canvas"]

canvas_set_counts_every_draw(canvas, d) ==
    [canvas EXCEPT !.canvas_doc =
        [total_pixels |-> @.total_pixels + 1,
         unique_contributors |-> d.contributors,
         grid |-> [@.grid EXCEPT ![d.x][d.y] = Some(d.color)]]]

\* lines 172-180 and 195: canvas_ref.set(canvas_update, merge=True), with
\* total_pixels = Increment(1) when the read found no pixel document
canvas_set(canvas, d) ==
    [canvas EXCEPT !.canvas_doc =
        [total_pixels |-> @.total_pixels + (IF d.exists THEN 0 ELSE 1),
         unique_contributors |-> d.contributors,
         grid |-> [@.grid EXCEPT ![d.x][d.y] = Some(d.color)]]]

\* lines 197-204
draw_pixel_result(d) ==
    [success |-> TRUE, changed |-> d.previous_color # Some(d.color), error |-> "none"]

draw_pixel_error(error) == [success |-> FALSE, changed |-> FALSE, error |-> error]

\* the writes of a call served alone, after its read
draw_pixel_writes(canvas, d) == canvas_set(canvas, contributors_read(canvas, d))

\* CanvasManager.draw_pixel behind POST /canvas/draw, served alone: the cell
\* is written whether or not the color differs; changed tells whether it did
draw_pixel(canvas, x, y, color, user_id) ==
    IF ~in_canvas(x, y)
    THEN [status |-> 400, body |-> Some(draw_pixel_error("coordinates")), w |-> canvas]
    ELSE IF ~color_format_ok(color)
    THEN [status |-> 400, body |-> Some(draw_pixel_error("color")), w |-> canvas]
    ELSE [status |-> 200,
          body |-> Some(draw_pixel_result(pixel_read(canvas, x, y, color, user_id))),
          w |-> draw_pixel_writes(pixel_set(canvas, pixel_read(canvas, x, y, color, user_id)),
                                  pixel_read(canvas, x, y, color, user_id))]

\* CanvasManager.get_pixel_info: None outside the canvas, the pixel document
\* of a drawn cell, the default color for a cell never drawn
get_pixel_info(canvas, x, y) ==
    IF ~in_canvas(x, y) THEN None
    ELSE IF IsSome(canvas.pixels[x][y])
    THEN Some([color |-> Get(canvas.pixels[x][y]).color,
               user_id |-> Some(Get(canvas.pixels[x][y]).user_id)])
    ELSE Some([color |-> DEFAULT_COLOR, user_id |-> None])

\* CanvasClient.draw_pixel: the body of a 200, else success = False
canvas_result(c) ==
    IF ~c.raised /\ c.status = 200 THEN Get(c.body)
    ELSE draw_pixel_error("request_failed")

(***************************************************************************)
(* shared/user_client.py: UserManagementClient, the processors' client of  *)
(* the user-manager. The repository holds two versions of it:              *)
(*   "services_shared"      check_rate_limit reads the user first, and     *)
(*                          increment_usage takes no include_stats         *)
(*   "web_frontend_shared"  check_rate_limit posts is_premium = False, and *)
(*                          increment_usage takes include_stats            *)
(***************************************************************************)
UserClients == {"services_shared", "web_frontend_shared"}

\* _make_request: the body of a 2xx or a 429; None for any other status and
\* when the request raises
make_request(c) ==
    IF ~c.raised /\ ((200 <= c.status /\ c.status < 300) \/ c.status = 429)
    THEN c.body ELSE None

allowed_by_default == [allowed |-> TRUE, remaining |-> 0, reset_in |-> 0, max |-> 0]

\* return result or {'allowed': True}
or_allowed(c) ==
    [result |-> IF IsSome(make_request(c)) THEN Get(make_request(c))
                ELSE allowed_by_default,
     w |-> c.w]

post_rate_limit_check(w, u, c, is_premium, t, o_rl) ==
    or_allowed(call(o_rl, handle_rate_limit_check(w, u, c, is_premium, t), w))

premium_of(user) == IsSome(user) /\ Get(user).is_premium

check_after_get(g, u, c, t, o_rl) ==
    post_rate_limit_check(g.w, u, c, premium_of(make_request(g)), t, o_rl)

\* UserManagementClient.check_rate_limit(user_id, username, command)
client_check_rate_limit(client, w, u, c, t, o_get, o_rl) ==
    IF client = "services_shared"
    THEN check_after_get(call(o_get, handle_get_user(w, u, t), w), u, c, t, o_rl)
    ELSE post_rate_limit_check(w, u, c, FALSE, t, o_rl)

incremented(c) ==
    [result |-> IF ~IsSome(make_request(c)) THEN None
                ELSE IF IsSome(Get(make_request(c)).total_draws)
                     THEN Some([total_draws |-> Get(Get(make_request(c)).total_draws)])
                     ELSE Some([total_draws |-> 0]),
     w |-> c.w]

\* UserManagementClient.increment_usage(user_id, 'draw', include_stats=True):
\* a TypeError, before any request, in the version without the parameter
client_increment_usage(client, w, u, c, t, o_inc) ==
    IF client = "services_shared" THEN [result |-> None, w |-> w]
    ELSE incremented(call(o_inc, handle_increment(w, u, c, TRUE, t), w))

\* UserManagementClient.get_user_stats(user_id) or {}, read by handle_draw
\* with a default of 0
client_total_draws(g) ==
    IF IsSome(make_request(g)) THEN Get(make_request(g)).total_draws ELSE 0

(***************************************************************************)
(* processor-draw: handle_draw. The result is [kind, w, canvas, changed,   *)
(* total_draws, rate_limit]: the reply, the stores after the handler, and  *)
(* what the reply shows.                                                   *)
(***************************************************************************)
\* _parse_color, on the inputs '#FF0000', 'blue' and 'black'; any other
\* input here is not a color
parse_color(color_input) ==
    IF color_input = "blue" THEN Some("#0000FF")
    ELSE IF color_input = "black" THEN Some("#000000")
    ELSE IF color_input = "#FF0000" THEN Some("#FF0000")
    ELSE None

\* options.get('color', 'black')
color_option(options) == IF IsSome(options.color) THEN Get(options.color) ELSE "black"

Refused(kind, w, canvas) ==
    [kind |-> kind, w |-> w, canvas |-> canvas, changed |-> FALSE,
     total_draws |-> None, rate_limit |-> None]

Placed(w, canvas, changed, total_draws) ==
    [kind |-> "placed", w |-> w, canvas |-> canvas, changed |-> changed,
     total_draws |-> Some(total_draws), rate_limit |-> None]

\* lines 155-162: the totals are read from the user when the increment
\* gave none
draw_counted(inc, canvas, changed, u, t, o) ==
    IF IsSome(inc.result)
    THEN Placed(inc.w, canvas, changed, Get(inc.result).total_draws)
    ELSE Placed(call(o.stats, handle_get_user(inc.w, u, t), inc.w).w, canvas, changed,
                client_total_draws(call(o.stats, handle_get_user(inc.w, u, t), inc.w)))

draw_applied_counts_every_draw(w, c, changed, u, t, client, o) ==
    IF ~canvas_result(c).success THEN Refused("draw_failed", w, c.w)
    ELSE draw_counted(client_increment_usage(client, w, u, "draw", t, o.inc),
                      c.w, changed, u, t, o)

\* lines 130-153: the usage is incremented only when the color changed
draw_applied(w, c, changed, u, t, client, o) ==
    IF ~canvas_result(c).success THEN Refused("draw_failed", w, c.w)
    ELSE IF changed
         THEN draw_counted(client_increment_usage(client, w, u, "draw", t, o.inc),
                           c.w, TRUE, u, t, o)
         ELSE draw_counted([result |-> None, w |-> w], c.w, FALSE, u, t, o)

\* lines 121-130
draw_checked(rl, canvas, u, x, y, color_hex, t, client, o) ==
    IF ~rl.result.allowed
    THEN [kind |-> "rate_limited", w |-> rl.w, canvas |-> canvas, changed |-> FALSE,
          total_draws |-> None, rate_limit |-> Some(rl.result)]
    ELSE IF ~in_canvas(x, y) THEN Refused("invalid_coordinates", rl.w, canvas)
    ELSE draw_applied(rl.w,
                      call(o.canvas, draw_pixel(canvas, x, y, color_hex, u), canvas),
                      canvas_result(call(o.canvas,
                                         draw_pixel(canvas, x, y, color_hex, u),
                                         canvas)).changed,
                      u, t, client, o)

handle_draw(w, canvas, data, t, client, o) ==
    IF ~IsSome(data.user) THEN Refused("unknown_user", w, canvas)
    ELSE IF ~IsSome(data.options) THEN Refused("missing_parameters", w, canvas)
    ELSE IF ~IsSome(parse_color(color_option(Get(data.options))))
         THEN Refused("invalid_color", w, canvas)
    ELSE draw_checked(client_check_rate_limit(client, w, Get(data.user), "draw", t,
                                              o.get, o.rl),
                      canvas, Get(data.user),
                      Get(data.options).x, Get(data.options).y,
                      Get(parse_color(color_option(Get(data.options)))),
                      t, client, o)

\* processor_draw_handler -> process_interaction -> CommandHandler.handle:
\* draw is the only command registered, and it manages its own usage
processor_draw_handler(w, canvas, data, t, client, o) ==
    IF data.type = 1 THEN Refused("pong", w, canvas)
    ELSE IF data.type # 2 THEN Refused("unknown_interaction_type", w, canvas)
    ELSE IF ~IsSome(data.command) THEN Refused("processing_error", w, canvas)
    ELSE IF Get(data.command) # "draw" THEN Refused("command_not_found", w, canvas)
    ELSE handle_draw(w, canvas, data, t, client, o)

(***************************************************************************)
(* The draw processor serving the Envelopes of its topic. outcome keeps    *)
(* the Envelope handled last: whose it was, whether the stored user was    *)
(* banned when it arrived, the reply, whether the Canvas Store wrote the   *)
(* cell (it did when the draw was placed, and when its answer was lost),   *)
(* how many draws were answered as placed so far, and whether every draw   *)
(* so far was handled with all calls answered by the client that takes     *)
(* include_stats.                                                          *)
(***************************************************************************)
MaxPlaced == 2      \* draws answered as placed

NoDrawFault ==
    [get |-> "answered", rl |-> "answered", canvas |-> "answered",
     inc |-> "answered", stats |-> "answered"]

\* at most one call of a handling fails, and only a call the client makes:
\* the client that reads the user first never posts an increment, the
\* other never reads the user before the check
DrawFaults(client) ==
    {o \in [get : CallOutcomes, rl : CallOutcomes, canvas : CallOutcomes,
            inc : CallOutcomes, stats : CallOutcomes] :
        /\ Cardinality({k \in DOMAIN o : o[k] # "answered"}) <= 1
        /\ IF client = "services_shared" THEN o.inc = "answered"
           ELSE o.get = "answered"}

placed_so_far == IF IsSome(outcome) THEN Get(outcome).placed ELSE 0

clean_so_far == IF IsSome(outcome) THEN Get(outcome).clean ELSE TRUE

ObserveDraw(data, r, client, o) ==
    LET caller == IF IsSome(data.user) THEN users[Get(data.user)] ELSE None IN
    Some([user |-> data.user,
          registered |-> IsSome(caller),
          banned |-> IsSome(caller) /\ Get(caller).is_banned,
          premium |-> IsSome(caller) /\ Get(caller).is_premium,
          kind |-> r.kind, changed |-> r.changed,
          wrote |-> r.kind = "placed"
                    \/ (r.kind = "draw_failed" /\ o.canvas = "answer_lost"),
          total_draws |-> r.total_draws, rate_limit |-> r.rate_limit,
          answered |-> o = NoDrawFault,
          placed |-> placed_so_far + (IF r.kind = "placed" THEN 1 ELSE 0),
          clean |-> clean_so_far /\ o = NoDrawFault /\ client = "web_frontend_shared"])

DrawHandled(k, r, client, o) ==
    /\ placed_so_far + (IF r.kind = "placed" THEN 1 ELSE 0) <= MaxPlaced
    /\ users' = r.w.users
    /\ cache_user' = r.w.cache_user
    /\ rate_limits' = r.w.rate_limits
    /\ cache_rl' = r.w.cache_rl
    /\ pixels' = r.canvas.pixels
    /\ canvas_doc' = r.canvas.canvas_doc
    /\ bus' = SubSeq(bus, 1, k - 1) \o SubSeq(bus, k + 1, Len(bus))
    /\ outcome' = ObserveDraw(bus[k].data, r, client, o)
    /\ UNCHANGED <<now, rl_log, resp, drawing, drawn, updating, responses, snapshots>>

\* processor-draw receives an Envelope of commands-draw
DrawProcessor(k, client, o) ==
    /\ k \in 1..Len(bus)
    /\ bus[k].topic = "commands-draw"
    /\ DrawHandled(k, processor_draw_handler(World, Canvas, bus[k].data, now, client, o),
                   client, o)

(***************************************************************************)
(* Draws end to end: a caller registers, is banned and unbanned, and sends *)
(* /draw on Discord at a few instants of one window and of the next; the   *)
(* proxy pre-checks and publishes, the draw processor re-checks, draws and *)
(* counts.                                                                 *)
(***************************************************************************)
DrawInstants == {0, 6, 61}

DrawOptions(x, y, color) == Some([x |-> x, y |-> y, color |-> color])

DrawBodies ==
    {Some(Interaction(2, Some("draw"), "member", ProxyCaller, FALSE,
                      DrawOptions(5, 5, Some(c)))) : c \in {"#FF0000", "blue"}}

DiscordDraw(bodies) ==
    \E body \in bodies :
        DiscordInteractions("valid", "valid", body, TRUE, NoFault, "published")

DrawProcessed ==
    \E k \in 1..MaxBus, client \in UserClients :
        \E o \in DrawFaults(client) : DrawProcessor(k, client, o)

InitDraw == InitStores

NextDraw ==
    \/ \E t \in DrawInstants : RLAdvance(t)
    \/ Register(ProxyCaller)
    \/ \E banned \in BOOLEAN : SetBanned(ProxyCaller, banned)
    \/ DiscordDraw(DrawBodies)
    \/ DrawProcessed

SpecDraw == InitDraw /\ [][NextDraw]_vars

\* The Envelope handled last was a draw of a registered caller, and every
\* call of its handling was answered.
DrawAnswered ==
    /\ IsSome(outcome)
    /\ IsSome(Get(outcome).user)
    /\ Get(outcome).answered

\* C8: a user whose is_banned flag is true is rejected for a metered
\* command at the proxy pre-check (nothing is published) and at the
\* processor re-check (the draw is not answered as placed), and no pixel is
\* written on their behalf while they are banned.
C8_BannedRejected ==
    /\ (/\ VerifiedDiscord
        /\ Get(resp).banned
        /\ Get(Get(Get(resp).interaction).command) \in art_commands)
       => ~Get(resp).published
    /\ (DrawAnswered /\ Get(outcome).banned)
       => (Get(outcome).kind # "placed" /\ ~Get(outcome).wrote)

\* C10: while a registered non-premium user repeats draw x=5 y=5 inside
\* one window, each through the proxy pre-check and the draw processor with
\* every call answered, the n-th draw answered as placed leaves total_draws
\* at n.
C10_TotalDrawsCountsDraws ==
    (/\ DrawAnswered
     /\ Get(outcome).clean
     /\ Get(outcome).kind = "placed"
     /\ ~Get(outcome).premium
     /\ now < DrawPeriod)
    => /\ IsSome(users[Get(Get(outcome).user)])
       /\ Get(users[Get(Get(outcome).user)]).total_draws = Get(outcome).placed

\* total_draws of a user, 0 while the user has no document
TotalDraws(docs, u) == IF IsSome(docs[u]) THEN Get(docs[u]).total_draws ELSE 0

\* C11: the handling of a draw Envelope, every call of it answered, raises
\* the caller's total_draws by exactly one when the draw was admitted and
\* applied by the Canvas Store (answered as placed), and leaves it as it
\* was when the draw was refused or failed.
C11_CountedOncePerPlacedDraw ==
    [][(/\ Len(bus') < Len(bus)
        /\ IsSome(outcome')
        /\ IsSome(Get(outcome').user)
        /\ Get(outcome').answered
        /\ Get(outcome').clean)
       => TotalDraws(users', Get(Get(outcome').user))
            = TotalDraws(users, Get(Get(outcome').user))
              + (IF Get(outcome').kind = "placed" THEN 1 ELSE 0)]_vars

(***************************************************************************)
(* The command processors: main.py, shared/processor_utils.py,             *)
(* command_registry.py and shared/pubsub_handler.py. A handler is taken by *)
(* what it does to the dispatch: it returns a response or it raises.       *)
(***************************************************************************)
\* CommandHandler.HANDLERS of the processor that serves a topic
HANDLERS(topic) ==
    IF topic = "commands-draw" THEN {"draw"}
    ELSE IF topic = "commands-snapshot" THEN {"snapshot"}
    ELSE IF topic = "commands-canvas-state" THEN {"canvas_state"}
    ELSE IF topic = "commands-stats" THEN {"stats"}
    ELSE IF topic = "commands-colors" THEN {"colors"}
    ELSE IF topic = "commands-pixel-info" THEN {"pixel_info", "getpixel"}
    ELSE IF topic = PUBSUB_TOPIC_COMMANDS_BASE
    THEN {"hello", "help", "ping", "register", "stats", "leaderboard", "userinfo",
          "ban", "unban", "setpremium"}
    ELSE {}

HandlerRuns == {"returns", "raises"}

handle_without_fallback(handlers, command_name, run) ==
    IF command_name \in handlers
    THEN [raised |-> FALSE,
          reply |-> IF run = "raises" THEN "command_error" ELSE "handled"]
    ELSE [raised |-> TRUE, reply |-> "handled"]

handle_uncaught(handlers, command_name, run) ==
    IF command_name \in handlers
    THEN [raised |-> run = "raises", reply |-> "handled"]
    ELSE [raised |-> FALSE, reply |-> "command_not_found"]

\* CommandHandler.handle: the handler's response, 'Command Error' when the
\* handler raises, 'Command Not Found' without a handler
handle(handlers, command_name, run) ==
    IF command_name \in handlers
    THEN [raised |-> FALSE,
          reply |-> IF run = "raises" THEN "command_error" ELSE "handled"]
    ELSE [raised |-> FALSE, reply |-> "command_not_found"]

read_only_commands ==
    {"stats", "leaderboard", "canvas-state", "snapshot", "colors", "pixel-info",
     "hello", "ping", "help", "userinfo"}

self_managed_commands == {"draw"}

\* increment_user_usage_async is called for the user of the interaction
usage_incremented(data) ==
    /\ IsSome(data.user)
    /\ Get(data.command) \notin read_only_commands
    /\ Get(data.command) \notin self_managed_commands

\* the increment is posted from a thread of its own; the request may fail
UsagePosts == {"posted", "not_posted"}

\* after command_handler.handle, inside the try of process_interaction
Dispatched(h, w, data, usage, t) ==
    IF h.raised THEN [raised |-> FALSE, reply |-> "processing_error", w |-> w]
    ELSE [raised |-> FALSE, reply |-> h.reply,
          w |-> IF usage_incremented(data) /\ usage = "posted"
                THEN handle_increment(w, Get(data.user), Get(data.command), FALSE, t).w
                ELSE w]

\* process_interaction of the processors; an exception of its own body is
\* answered with 'Processing Error'
dispatch(w, data, handlers, run, usage, t) ==
    IF data.type = 1 THEN [raised |-> FALSE, reply |-> "pong", w |-> w]
    ELSE IF data.type # 2
    THEN [raised |-> FALSE, reply |-> "unknown_interaction_type", w |-> w]
    ELSE IF ~IsSome(data.command)
    THEN [raised |-> FALSE, reply |-> "processing_error", w |-> w]
    ELSE Dispatched(handle(handlers, Get(data.command), run), w, data, usage, t)

\* The two versions of shared/pubsub_handler.py in the repository: the one
\* of processor-art answers through the proxy, the one of web-frontend
\* answers the Discord webhook or the web webhook directly.
ReplyRoutines == {"processor_art_shared", "web_frontend_shared"}

\* send_discord_webhook_direct posts a payload that has content or embeds
has_embeds(reply) == reply # "pong"

\* handle_processor_response: whether the reply is sent (a request is made
\* to deliver it); env_token is DISCORD_BOT_TOKEN in the processor
handle_processor_response(routine, data, reply, env_token) ==
    IF routine = "processor_art_shared"
    THEN IF data.interaction_type = "web" /\ Field(data, "proxy_url", FALSE) THEN TRUE
         ELSE /\ data.token
              /\ data.application_id
              /\ Field(data, "proxy_url", FALSE)
    ELSE IF data.interaction_type = "web" THEN Field(data, "webhook_url", FALSE)
         ELSE /\ data.token
              /\ data.application_id
              /\ (Field(data, "discord_bot_token", FALSE) \/ env_token)
              /\ has_embeds(reply)

\* processor_*_handler: dispatch, then the reply routine; an exception that
\* leaves the dispatch is raised again by the handler
Handled(d, data, routine, env_token) ==
    [reply |-> d.reply, crashed |-> d.raised, relayed |-> ~d.raised,
     attempted |-> ~d.raised /\ handle_processor_response(routine, data, d.reply,
                                                         env_token),
     w |-> d.w]

processor_handler(w, data, handlers, run, routine, env_token, usage, t) ==
    Handled(dispatch(w, data, handlers, run, usage, t), data, routine, env_token)

(***************************************************************************)
(* Envelopes from the proxy to the processors and the replies sent for     *)
(* them: commands whose handlers only read, and a command no processor     *)
(* knows, on both channels. outcome keeps the Envelope handled last and    *)
(* what became of its reply.                                               *)
(***************************************************************************)
RelayCommands == {"stats", "leaderboard", "frobnicate"}

\* a Discord interaction carries its token and its application_id
FromDiscord(i) == i @@ [token |-> TRUE, application_id |-> TRUE]

RelayDiscordBodies ==
    {Some(FromDiscord(Interaction(3, None, "member", ProxyCaller, FALSE, None)))}
    \cup {Some(FromDiscord(Interaction(2, Some(c), "member", ProxyCaller, FALSE, None))) :
            c \in RelayCommands}

RelayWebBodies ==
    {Some(Interaction(2, Some(c), "user", ProxyCaller, wh, None)) :
        c \in RelayCommands, wh \in BOOLEAN}
    \cup {Some(Interaction(2, Some(c), "user", ProxyCaller, TRUE, None) @@ [token |-> TRUE]) :
            c \in RelayCommands}

RelayDiscord(bodies) ==
    \E body \in bodies :
        DiscordInteractions("valid", "valid", body, TRUE, NoFault, "published")

RelayWeb(bodies) ==
    \E body \in bodies : WebInteractions(body, TRUE, NoFault, "published")

ObserveRelay(e, run, routine, h) ==
    Some([topic |-> e.topic, data |-> e.data,
          run |-> IF e.data.type = 2 /\ IsSome(e.data.command)
                     /\ Get(e.data.command) \in HANDLERS(e.topic)
                  THEN run ELSE "none",
          routine |-> routine,
          reply |-> h.reply, crashed |-> h.crashed, relayed |-> h.relayed,
          attempted |-> h.attempted])

RelayHandled(k, run, routine, h) ==
    /\ users' = h.w.users
    /\ cache_user' = h.w.cache_user
    /\ rate_limits' = h.w.rate_limits
    /\ cache_rl' = h.w.cache_rl
    /\ bus' = SubSeq(bus, 1, k - 1) \o SubSeq(bus, k + 1, Len(bus))
    /\ outcome' = ObserveRelay(bus[k], run, routine, h)
    /\ UNCHANGED <<now, rl_log, resp, pixels, canvas_doc, drawing, drawn, updating, responses, snapshots>>

\* the processor of a topic receives an Envelope
Processor(k, run, routine, env_token, usage) ==
    /\ k \in 1..Len(bus)
    /\ RelayHandled(k, run, routine,
                    processor_handler(World, bus[k].data, HANDLERS(bus[k].topic), run,
                                      routine, env_token, usage, now))

RelayProcessed ==
    \E k \in 1..MaxBus, run \in HandlerRuns, routine \in ReplyRoutines :
        \E env_token \in BOOLEAN, usage \in UsagePosts :
            Processor(k, run, routine, env_token, usage)

InitRelay == InitStores

NextRelay ==
    \/ Register(ProxyCaller)
    \/ RelayDiscord(RelayDiscordBodies)
    \/ RelayWeb(RelayWebBodies)
    \/ RelayProcessed

SpecRelay == InitRelay /\ [][NextRelay]_vars

\* The Envelope handled last carries the reply fields of its channel:
\* interaction token, application id and bot token on Discord, webhook URL
\* on web.
CarriesReplyFields ==
    /\ IsSome(outcome)
    /\ IF Get(outcome).data.interaction_type = "web"
       THEN Field(Get(outcome).data, "webhook_url", FALSE)
       ELSE /\ Get(outcome).data.token
            /\ Get(outcome).data.application_id
            /\ Field(Get(outcome).data, "discord_bot_token", FALSE)

\* C12: an Envelope the proxy published carries every field the reply
\* routine of the processor that handles it needs, so the reply of a handled
\* Envelope that carries the fields of its channel is sent, never withheld
\* for a missing reply-target field.
C12_ReplyNeverWithheld ==
    CarriesReplyFields => Get(outcome).attempted

\* The Envelope handled last holds a command of its processor.
CommandHandled ==
    /\ IsSome(outcome)
    /\ Get(outcome).data.type = 2
    /\ IsSome(Get(outcome).data.command)

C14_UnknownCommandAnswered ==
    (CommandHandled
     /\ Get(Get(outcome).data.command) \notin HANDLERS(Get(outcome).topic))
    => /\ Get(outcome).reply = "command_not_found"
       /\ Get(outcome).relayed
       /\ ~Get(outcome).crashed

C14_Witness ==
    /\ CommandHandled
    /\ Get(Get(outcome).data.command) = "frobnicate"
    /\ Get(outcome).topic = PUBSUB_TOPIC_COMMANDS_BASE
    /\ Get(outcome).reply = "command_not_found"
    /\ Get(outcome).attempted

(***************************************************************************)
(* get_topic_for_command on its own: the topics of two command names, over *)
(* the names the processors register, names no processor knows and a       *)
(* payload without a command. resp keeps the two lookups.                  *)
(***************************************************************************)
TopicCommands ==
    {None}
    \cup {Some(c) : c \in {"draw", "snapshot", "canvas_state", "stats", "colors",
                           "pixel_info", "getpixel", "hello", "help", "ping",
                           "register", "leaderboard", "userinfo", "ban",
                           "frobnicate"}}

TopicLookup(first, second) ==
    /\ resp' = Some([first |-> first, second |-> second,
                     first_topic |-> get_topic_for_command(first),
                     second_topic |-> get_topic_for_command(second)])
    /\ UNCHANGED <<now, rl_log, bus, pixels, outcome, canvas_doc, drawing, drawn, responses, snapshots>>
    /\ UNCHANGED umVars

InitTopic == InitStores

NextTopic == \E first \in TopicCommands, second \in TopicCommands : TopicLookup(first, second)

SpecTopic == InitTopic /\ [][NextTopic]_vars

\* the command classes with a lane of their own, by the names the
\* processors register; "other" for every other name
CommandClass(command_name) ==
    IF ~IsSome(command_name) THEN "other"
    ELSE IF Get(command_name) = "draw" THEN "draw"
    ELSE IF Get(command_name) = "snapshot" THEN "snapshot"
    ELSE IF Get(command_name) = "stats" THEN "stats"
    ELSE IF Get(command_name) = "colors" THEN "colors"
    ELSE IF Get(command_name) \in {"pixel_info", "getpixel"} THEN "pixel-info"
    ELSE IF Get(command_name) = "canvas_state" THEN "canvas-state"
    ELSE "other"

MaxCalls == 3       \* Canvas Store calls answered

CanvasPoints == {<<0, 0>>, <<47, 47>>, <<-1, 0>>, <<47, 48>>}

CanvasColors == {"#FF0000", "#0000FF", "red"}

NoCall ==
    [op |-> "none", x |-> 0, y |-> 0, color |-> "", user_id |-> "",
     result |-> draw_pixel_error("none"), info |-> None, canvas_changed |-> FALSE,
     total_before |-> 0, previous |-> None, calls |-> 0]

last_call == IF IsSome(drawn) THEN Get(drawn) ELSE NoCall

\* what the next call remembers of this one
Before(c) ==
    IF c.op = "none" THEN None
    ELSE Some([op |-> c.op, x |-> c.x, y |-> c.y, color |-> c.color,
               success |-> c.result.success])

DrawPixelAnswered(x, y, color, user_id, r) ==
    /\ pixels' = r.w.pixels
    /\ canvas_doc' = r.w.canvas_doc
    /\ drawn' = Some([op |-> "draw_pixel", x |-> x, y |-> y, color |-> color,
                      user_id |-> user_id, result |-> Get(r.body), info |-> None,
                      canvas_changed |-> r.w # Canvas,
                      total_before |-> canvas_doc.total_pixels,
                      previous |-> Before(last_call),
                      calls |-> last_call.calls + 1])
    /\ UNCHANGED <<now, rl_log, resp, bus, outcome, drawing, responses, snapshots>>
    /\ UNCHANGED umVars

\* POST /canvas/draw
DrawPixel(x, y, color, user_id) ==
    /\ last_call.calls < MaxCalls
    /\ DrawPixelAnswered(x, y, color, user_id, draw_pixel(Canvas, x, y, color, user_id))

\* GET /canvas/pixel/{x}/{y}
GetPixelInfo(x, y) ==
    /\ last_call.calls < MaxCalls
    /\ drawn' = Some([op |-> "get_pixel_info", x |-> x, y |-> y, color |-> "",
                      user_id |-> "", result |-> draw_pixel_error("none"),
                      info |-> get_pixel_info(Canvas, x, y),
                      canvas_changed |-> FALSE,
                      total_before |-> canvas_doc.total_pixels,
                      previous |-> Before(last_call),
                      calls |-> last_call.calls + 1])
    /\ UNCHANGED <<now, rl_log, resp, bus, pixels, outcome, canvas_doc, drawing, responses, snapshots>>
    /\ UNCHANGED umVars

InitCanvas == InitStores

NextCanvas ==
    \/ \E p \in CanvasPoints, color \in CanvasColors, u \in UserIds :
           DrawPixel(p[1], p[2], color, u)
    \/ \E p \in CanvasPoints : GetPixelInfo(p[1], p[2])

SpecCanvas == InitCanvas /\ [][NextCanvas]_vars

\* the call before this one was a draw_pixel answered with success
AfterDraw(c) ==
    /\ IsSome(c.previous)
    /\ Get(c.previous).op = "draw_pixel"
    /\ Get(c.previous).success

SameCell(c) == Get(c.previous).x = c.x /\ Get(c.previous).y = c.y

\* C16: a draw_pixel inside the canvas with a valid color succeeds, and a
\* get_pixel_info of the same cell right after it returns that color; a
\* draw_pixel outside the canvas, at -1 and at CANVAS_SIZE included, is
\* answered with the coordinates error and changes nothing.
C16_DrawThenRead ==
    /\ last_call.op = "draw_pixel"
       => /\ (in_canvas(last_call.x, last_call.y) /\ last_call.color \in HexColors)
             => /\ last_call.result.success
                /\ get_pixel_info(Canvas, last_call.x, last_call.y)
                       = Some([color |-> last_call.color,
                               user_id |-> Some(last_call.user_id)])
          /\ ~in_canvas(last_call.x, last_call.y)
             => /\ ~last_call.result.success
                /\ last_call.result.error = "coordinates"
                /\ ~last_call.canvas_changed
    /\ (last_call.op = "get_pixel_info" /\ AfterDraw(last_call) /\ SameCell(last_call))
       => /\ IsSome(last_call.info)
          /\ Get(last_call.info).color = Get(last_call.previous).color

C16_Witness ==
    /\ last_call.op = "get_pixel_info"
    /\ AfterDraw(last_call)
    /\ SameCell(last_call)
    /\ last_call.x = 47 /\ last_call.y = 47
    /\ Get(last_call.info).color = "#0000FF"
    /\ last_call.calls = 3

\* C17: a draw_pixel that follows a successful draw_pixel of the same color
\* at the same cell answers changed = false and leaves total_pixels as it
\* was.
C17_SameColorAgain ==
    (/\ last_call.op = "draw_pixel"
     /\ last_call.result.success
     /\ AfterDraw(last_call)
     /\ SameCell(last_call)
     /\ Get(last_call.previous).color = last_call.color)
    => /\ ~last_call.result.changed
       /\ canvas_doc.total_pixels = last_call.total_before

C17_Witness ==
    /\ last_call.op = "draw_pixel"
    /\ last_call.result.success
    /\ AfterDraw(last_call)
    /\ SameCell(last_call)
    /\ Get(last_call.previous).color = last_call.color
    /\ ~last_call.result.changed
    /\ canvas_doc.total_pixels = 1

(***************************************************************************)
(* The Canvas Store serving draw_pixel calls at the same time: each call   *)
(* goes through its four Firestore calls (the read of the pixel document,  *)
(* its write, the read of the canvas document, its write), and the calls   *)
(* of two requests interleave. drawing[p] is the call of request p, with   *)
(* what it read and the Firestore call it makes next. Every Firestore call *)
(* succeeds.                                                               *)
(***************************************************************************)
MaxDraws == 3       \* draw_pixel calls received

RacePoints == {<<0, 0>>, <<47, 47>>, <<-1, 0>>}

RaceColors == {"#FF0000", "#0000FF"}

Received == Some([last_call EXCEPT !.calls = @ + 1])

Returned(d, result) ==
    Some([last_call EXCEPT !.op = "draw_pixel", !.x = d.x, !.y = d.y, !.color = d.color,
                           !.user_id = d.user_id, !.result = result])

\* lines 131-156: the validation, and the read of the pixel document
DrawPixelBegin(p, x, y, color, user_id) ==
    /\ ~IsSome(drawing[p])
    /\ last_call.calls < MaxDraws
    /\ IF in_canvas(x, y) /\ color_format_ok(color)
       THEN /\ drawing' = [drawing EXCEPT ![p] = Some(pixel_read(Canvas, x, y, color, user_id))]
            /\ drawn' = Received
       ELSE /\ drawn' = Some([last_call EXCEPT !.op = "draw_pixel", !.x = x, !.y = y,
                                               !.color = color, !.user_id = user_id,
                                               !.result = Get(draw_pixel(Canvas, x, y, color,
                                                                         user_id).body),
                                               !.calls = @ + 1])
            /\ UNCHANGED drawing
    /\ UNCHANGED <<now, rl_log, resp, bus, pixels, outcome, canvas_doc, responses, snapshots>>
    /\ UNCHANGED umVars

\* lines 158-170
DrawPixelSetPixel(p) ==
    /\ IsSome(drawing[p])
    /\ Get(drawing[p]).pc = "set_pixel"
    /\ pixels' = pixel_set(Canvas, Get(drawing[p])).pixels
    /\ drawing' = [drawing EXCEPT ![p] = Some([Get(@) EXCEPT !.pc = "get_canvas"])]
    /\ UNCHANGED <<now, rl_log, resp, bus, outcome, canvas_doc, drawn, responses, snapshots>>
    /\ UNCHANGED umVars

\* lines 172-187
DrawPixelGetCanvas(p) ==
    /\ IsSome(drawing[p])
    /\ Get(drawing[p]).pc = "get_canvas"
    /\ drawing' = [drawing EXCEPT ![p] = Some(contributors_read(Canvas, Get(@)))]
    /\ UNCHANGED <<now, rl_log, resp, bus, pixels, outcome, canvas_doc, drawn, responses, snapshots>>
    /\ UNCHANGED umVars

\* lines 195-204
DrawPixelSetCanvas(p) ==
    /\ IsSome(drawing[p])
    /\ Get(drawing[p]).pc = "set_canvas"
    /\ canvas_doc' = canvas_set(Canvas, Get(drawing[p])).canvas_doc
    /\ drawing' = [drawing EXCEPT ![p] = None]
    /\ drawn' = Returned(Get(drawing[p]), draw_pixel_result(Get(drawing[p])))
    /\ UNCHANGED <<now, rl_log, resp, bus, pixels, outcome, responses, snapshots>>
    /\ UNCHANGED umVars

InitCanvasRace == InitStores

NextCanvasRace ==
    \/ \E p \in Requests, c \in RacePoints, color \in RaceColors, u \in UserIds :
           DrawPixelBegin(p, c[1], c[2], color, u)
    \/ \E p \in Requests : DrawPixelSetPixel(p)
    \/ \E p \in Requests : DrawPixelGetCanvas(p)
    \/ \E p \in Requests : DrawPixelSetCanvas(p)

SpecCanvasRace == InitCanvasRace /\ [][NextCanvasRace]_vars

\* the pixel documents there are
PixelRecords == Cardinality({c \in Coords \X Coords : IsSome(pixels[c[1]][c[2]])})

\* the draw_pixel calls received and not yet answered
InFlight == Cardinality({p \in Requests : IsSome(drawing[p])})

\* C18: total_pixels differs from the number of pixel documents by at most
\* the number of draw_pixel calls in flight, and equals it when none is.
C18_TotalPixelsCountsRecords ==
    /\ canvas_doc.total_pixels - PixelRecords <= InFlight
    /\ PixelRecords - canvas_doc.total_pixels <= InFlight

(***************************************************************************)
(* The user-manager serving its writes at the same time: POST /api/users,  *)
(* the increment, ban, unban and premium routes, for one user. A route     *)
(* that reads the user document before it writes it (create_or_update_user *)
(* and set_premium) takes two steps, and the steps of two requests         *)
(* interleave; updating[p] is the call of request p with what it read. A   *)
(* route of one Firestore write takes one step. POST /api/users carries    *)
(* the fields the callers in the repository send (username, avatar,        *)
(* discriminator), none of the three fields kept here. Every Firestore     *)
(* call succeeds.                                                          *)
(***************************************************************************)
MaxTotalDraws == 2  \* draws counted for a user

UMUser == "u1"

\* create_or_update_user, lines 100-108: get_user(user_id, use_cache=False)
CreateOrUpdateRead(p, u) ==
    /\ ~IsSome(updating[p])
    /\ updating' = [updating EXCEPT ![p] =
                       Some([op |-> "create_or_update_user", user |-> u,
                             existing |-> users[u], is_premium |-> FALSE])]
    /\ UNCHANGED <<now, rate_limits, cache_rl, cache_user, users, rl_log>>
    /\ UNCHANGED pipeVars

\* create_or_update_user, lines 109-173: the three fields of the document
\* read, or of a new user, are set with merge=True
CreateOrUpdateWrite(p) ==
    /\ IsSome(updating[p])
    /\ Get(updating[p]).op = "create_or_update_user"
    /\ users' = [users EXCEPT ![Get(updating[p]).user] =
                     create_or_update_write(@, Get(updating[p]).existing, now)]
    /\ cache_user' = [cache_user EXCEPT ![Get(updating[p]).user] = None]
    /\ updating' = [updating EXCEPT ![p] = None]
    /\ UNCHANGED <<now, rate_limits, cache_rl, rl_log>>
    /\ UNCHANGED pipeVars

\* POST /api/users/{user_id}/increment
IncrementUsage(u, command) ==
    /\ TotalDraws(users, u) < MaxTotalDraws
    /\ users' = [users EXCEPT ![u] = increment_usage(users[u], command)]
    /\ cache_user' = [cache_user EXCEPT ![u] = None]
    /\ UNCHANGED <<now, rate_limits, cache_rl, rl_log, updating>>
    /\ UNCHANGED pipeVars

\* set_premium, lines 335-336: doc_ref.get()
SetPremiumRead(p, u, is_premium) ==
    /\ ~IsSome(updating[p])
    /\ updating' = [updating EXCEPT ![p] =
                       Some([op |-> "set_premium", user |-> u,
                             existing |-> users[u], is_premium |-> is_premium])]
    /\ UNCHANGED <<now, rate_limits, cache_rl, cache_user, users, rl_log>>
    /\ UNCHANGED pipeVars

\* set_premium, lines 338-358
SetPremiumWrite(p) ==
    /\ IsSome(updating[p])
    /\ Get(updating[p]).op = "set_premium"
    /\ users' = [users EXCEPT ![Get(updating[p]).user] =
                     set_premium_write(@, IsSome(Get(updating[p]).existing),
                                       Get(updating[p]).is_premium, now)]
    /\ cache_user' = [cache_user EXCEPT ![Get(updating[p]).user] = None]
    /\ updating' = [updating EXCEPT ![p] = None]
    /\ UNCHANGED <<now, rate_limits, cache_rl, rl_log>>
    /\ UNCHANGED pipeVars

InitUsers == InitStores

NextUsers ==
    \/ \E p \in Requests : CreateOrUpdateRead(p, UMUser)
    \/ \E p \in Requests : CreateOrUpdateWrite(p)
    \/ \E command \in {"draw", "stats"} : IncrementUsage(UMUser, command)
    \/ \E banned \in BOOLEAN : SetBanned(UMUser, banned)
    \/ \E p \in Requests, is_premium \in BOOLEAN : SetPremiumRead(p, UMUser, is_premium)
    \/ \E p \in Requests : SetPremiumWrite(p)

SpecUsers == InitUsers /\ [][NextUsers]_vars

\* C19: no step of create_or_update_user, increment_usage, ban_user,
\* unban_user or set_premium lowers the stored total_draws of a user.
C19_TotalDrawsNeverDecreases ==
    [][\A u \in UserIds : TotalDraws(users', u) >= TotalDraws(users, u)]_vars

IsBanned(docs, u) == IsSome(docs[u]) /\ Get(docs[u]).is_banned

IsPremium(docs, u) == IsSome(docs[u]) /\ Get(docs[u]).is_premium

\* C20: a step of ban_user or unban_user leaves is_premium of every user as
\* it was, and a step of set_premium leaves is_banned of every user as it
\* was.
C20_FlagsIndependent ==
    [][/\ (\E u \in UserIds, banned \in BOOLEAN : SetBanned(u, banned))
          => \A u \in UserIds : IsPremium(users', u) = IsPremium(users, u)
       /\ (\E p \in Requests : SetPremiumWrite(p))
          => \A u \in UserIds : IsBanned(users', u) = IsBanned(users, u)]_vars

\* C23: the write of a create_or_update_user that found the user at its
\* read, with no field supplied by the caller, leaves the stored
\* total_draws, is_banned, is_premium and created_at of the user as they
\* were (created_at is stamped by no such call).
C23_UpsertKeepsStoredFields ==
    [][\A p \in Requests :
          (CreateOrUpdateWrite(p) /\ IsSome(Get(updating[p]).existing))
          => users'[Get(updating[p]).user] = users[Get(updating[p]).user]]_vars

(***************************************************************************)
(* The user-manager serving the writes of handle_users one at a time. resp *)
(* keeps the request answered last: its route, user and is_premium value,  *)
(* the status of the answer, the user document before it, and the request  *)
(* answered before it.                                                     *)
(***************************************************************************)
MaxRequests == 3    \* user-manager requests answered

UserRoutes == {"create", "increment", "ban", "unban", "premium"}

\* the stored document after the route's UserManager call
user_written(doc, route, is_premium, t) ==
    IF route = "create" THEN create_or_update_user(doc, t)
    ELSE IF route = "increment" THEN increment_usage(doc, "draw")
    ELSE IF route = "ban" THEN set_banned(doc, TRUE)
    ELSE IF route = "unban" THEN set_banned(doc, FALSE)
    ELSE set_premium(doc, is_premium, t)

\* handle_users, the routes that write: POST /api/users, POST .../increment,
\* POST .../ban, POST .../unban, PUT .../premium. Each answers 200 when its
\* UserManager call succeeded, and each call deletes the cache entry
handle_users(w, route, u, is_premium, t) ==
    [status |-> 200,
     body |-> Some([status |-> route]),
     w |-> [w EXCEPT !.users[u] = user_written(w.users[u], route, is_premium, t),
                     !.cache_user[u] = None]]

requests_so_far == IF IsSome(resp) THEN Get(resp).calls ELSE 0

Asked(r) == [route |-> r.route, user |-> r.user, is_premium |-> r.is_premium,
             status |-> r.status]

UsersAnswered(route, u, is_premium, a) ==
    /\ users' = a.w.users
    /\ cache_user' = a.w.cache_user
    /\ resp' = Some([route |-> route, user |-> u, is_premium |-> is_premium,
                     status |-> a.status, before |-> users[u],
                     previous |-> IF IsSome(resp) THEN Some(Asked(Get(resp))) ELSE None,
                     calls |-> requests_so_far + 1])
    /\ UNCHANGED <<now, rate_limits, cache_rl, rl_log, updating,
                   bus, pixels, outcome, canvas_doc, drawing, drawn, responses, snapshots>>

UsersRequest(route, u, is_premium) ==
    /\ requests_so_far < MaxRequests
    /\ route = "increment" => TotalDraws(users, u) < MaxTotalDraws
    /\ route # "premium" => ~is_premium
    /\ UsersAnswered(route, u, is_premium, handle_users(World, route, u, is_premium, now))

InitDirectory == InitStores

NextDirectory ==
    \E route \in UserRoutes, u \in UserIds, is_premium \in BOOLEAN :
        UsersRequest(route, u, is_premium)

SpecDirectory == InitDirectory /\ [][NextDirectory]_vars

\* the same ban, unban or premium request as the one answered just before
\* it, which was answered with success
AppliedAgain(r) ==
    /\ r.route \in {"ban", "unban", "premium"}
    /\ IsSome(r.previous)
    /\ Get(r.previous).route = r.route
    /\ Get(r.previous).user = r.user
    /\ Get(r.previous).is_premium = r.is_premium
    /\ Get(r.previous).status = 200

\* C21: ban, unban or set_premium(v) applied a second time in a row to a
\* user is answered with success, and is_banned and is_premium of the user
\* stay as the first application left them.
C21_AppliedTwice ==
    (IsSome(resp) /\ AppliedAgain(Get(resp)))
    => /\ Get(resp).status = 200
       /\ IsSome(Get(resp).before)
       /\ IsSome(users[Get(resp).user])
       /\ Get(users[Get(resp).user]).is_banned = Get(Get(resp).before).is_banned
       /\ Get(users[Get(resp).user]).is_premium = Get(Get(resp).before).is_premium

C21_Witness ==
    /\ IsSome(resp)
    /\ AppliedAgain(Get(resp))
    /\ Get(resp).route = "ban"
    /\ Get(resp).status = 200
    /\ Get(users[Get(resp).user]).is_banned
    /\ Get(users[Get(resp).user]).is_premium

(***************************************************************************)
(* get_user served at the same time as the writes of handle_users, for one *)
(* user: a get_user that misses the cache reads the document and caches    *)
(* what it read in a later step; updating[p] is the get_user of request p  *)
(* with the document it read. The writes are served as in UsersRequest.    *)
(***************************************************************************)
ReaderInstants == {30, 61}

\* get_user, lines 41-52: answered from the cache, or the read of the
\* document after a miss
GetUserBegin(p, u) ==
    /\ ~IsSome(updating[p])
    /\ IF IsSome(cache_get(cache_user[u], now))
       THEN UNCHANGED <<cache_user, updating>>
       ELSE /\ cache_user' = [cache_user EXCEPT ![u] = cache_after_get(@, now)]
            /\ updating' = [updating EXCEPT ![p] =
                               Some([op |-> "get_user", user |-> u,
                                     existing |-> users[u], is_premium |-> FALSE])]
    /\ UNCHANGED <<now, rate_limits, cache_rl, users, rl_log>>
    /\ UNCHANGED pipeVars

\* get_user, lines 53-80: the document read is cached for 60 seconds
GetUserEnd(p) ==
    /\ IsSome(updating[p])
    /\ Get(updating[p]).op = "get_user"
    /\ cache_user' = [cache_user EXCEPT ![Get(updating[p]).user] =
                         IF IsSome(Get(updating[p]).existing)
                         THEN cache_set(Get(Get(updating[p]).existing), UserCacheTTL, now)
                         ELSE @]
    /\ updating' = [updating EXCEPT ![p] = None]
    /\ UNCHANGED <<now, rate_limits, cache_rl, users, rl_log>>
    /\ UNCHANGED pipeVars

InitReaders == InitStores

NextReaders ==
    \/ \E route \in UserRoutes, is_premium \in BOOLEAN : UsersRequest(route, UMUser, is_premium)
    \/ \E p \in Requests : GetUserBegin(p, UMUser)
    \/ \E p \in Requests : GetUserEnd(p)
    \/ \E t \in ReaderInstants : RLAdvance(t)

SpecReaders == InitReaders /\ [][NextReaders]_vars

\* C22: every write of handle_users has returned (they are served in one
\* step), so a get_user that starts now has to return the stored document,
\* whether or not another get_user is in flight.
C22_ReadAfterWriteIsFresh ==
    \A u \in UserIds : get_user(users[u], cache_user[u], now).user = users[u]

(***************************************************************************)
(* Claims about get_limits_info and reset_limits.                          *)
(***************************************************************************)
\* C24: a call of get_limits_info leaves the window record of every
\* (user, command) pair as it was.
C24_GetInfoLeavesWindowRecord ==
    [][(\E c \in Commands, p \in BOOLEAN : RLGetInfo(RLUser, c, p))
       => rate_limits' = rate_limits]_vars

\* The commands a call of reset_limits covers: the one named, or all of them.
Covered(command) == IF IsSome(command) THEN {Get(command)} ELSE Commands

\* C25: when reset_limits returns, in its single-command form and in its
\* all-commands form, no window record remains for the pairs it covers, and
\* a check_rate_limit made next for such a pair, at that instant or later,
\* is admitted with remaining = max_calls - 1.
C25_ResetThenAdmitted ==
    [][\A command \in {None} \cup {Some(c) : c \in Commands} :
          RLReset(RLUser, command)
          => \A c \in Covered(command), p \in RLTiers, t \in RLInstants :
                /\ rate_limits'[RLUser][c] = None
                /\ t >= now' =>
                     LET res == check_rate_limit(rate_limits'[RLUser][c],
                                                 cache_rl'[RLUser][c], c, p, t)
                     IN /\ res.result.allowed
                        /\ res.result.remaining = max_calls(c, p) - 1]_vars

(***************************************************************************)
(* The handlers of the read-only commands, by the calls they make to the   *)
(* user-manager: stats_handler.py, user_commands.py, pixel_info_handler.py *)
(* and colors_handler.py.                                                  *)
(***************************************************************************)
\* GET /api/rate-limit/{user_id}?command=c, on the user r read by get_user:
\*     info = rate_limiter.get_limits_info(user_id, command, is_premium)
rate_limit_info_for(w, r, u, c, t) ==
    rate_limit_answer([w EXCEPT !.cache_user[u] = r.entry], u, c,
                      check_rate_limit(w.rate_limits[u][c], w.cache_rl[u][c], c,
                                       IsSome(r.user) /\ Get(r.user).is_premium, t))

handle_rate_limit_info(w, u, c, t) ==
    [rate_limit_info_for(w, get_user(w.users[u], w.cache_user[u], t), u, c, t)
        EXCEPT !.status = 200]

\* UserManagementClient.get_rate_limit_info(user_id, command):
\* GET /api/users/{user_id}, then GET /api/rate-limit/{user_id}
get_rate_limit_info(w, u, c, t) ==
    handle_rate_limit_info(handle_get_user(w, u, t).w, u, c, t)

\* handle_stats of processor-stats: get_user_stats(user_id), then
\* get_rate_limit_info(user_id, 'draw')
handle_stats(w, u, t) == get_rate_limit_info(handle_get_user(w, u, t).w, u, "draw", t).w

\* handle_userinfo for the caller: the user is read and created when the
\* read does not find it, read again, and the rate-limit route is asked for
\* 'draw' when the user was found
userinfo_limits(a, u, t) ==
    IF a.status = 200 THEN handle_rate_limit_info(a.w, u, "draw", t).w ELSE a.w

userinfo_read(w, u, t) == userinfo_limits(handle_get_user(w, u, t), u, t)

userinfo_created(a, u, t) ==
    IF a.status = 200 THEN userinfo_read(a.w, u, t)
    ELSE userinfo_read(handle_users(a.w, "create", u, FALSE, t).w, u, t)

handle_userinfo(w, u, t) == userinfo_created(handle_get_user(w, u, t), u, t)

\* the state of the user-manager after the handler of a command returned;
\* the handlers of leaderboard, pixel_info and colors only read
handler_calls(w, command_name, u, t) ==
    IF command_name = "stats" THEN handle_stats(w, u, t)
    ELSE IF command_name = "userinfo" THEN handle_userinfo(w, u, t)
    ELSE w

(***************************************************************************)
(* The processors at work on the read-only commands of registered and      *)
(* unregistered callers, at instants inside and after a draw window.       *)
(***************************************************************************)
ReadOnlyCommands == {"stats", "leaderboard", "userinfo", "pixel_info", "colors"}
ReadOnlyInstants == {0, 3, 61}

\* the interaction of a command as the processor receives it
CommandOf(c, u) == [type |-> 2, command |-> Some(c), user |-> Some(u)]

ReadOnlyAnswered(c, u, d) ==
    /\ users' = d.w.users
    /\ cache_user' = d.w.cache_user
    /\ rate_limits' = d.w.rate_limits
    /\ cache_rl' = d.w.cache_rl
    /\ outcome' = Some([command |-> c, user |-> u, reply |-> d.reply])
    /\ UNCHANGED <<now, rl_log, resp, bus, pixels, canvas_doc, drawing, drawn, updating, responses, snapshots>>

\* a processor handles a read-only command: the handler, then the rest of
\* process_interaction
ReadOnlyProcessed(c, u, usage) ==
    ReadOnlyAnswered(c, u,
                     dispatch(handler_calls(World, c, u, now), CommandOf(c, u),
                              HANDLERS(get_topic_for_command(Some(c))), "returns",
                              usage, now))

InitReadOnly == InitStores

NextReadOnly ==
    \/ Register(UMUser)
    \/ \E t \in ReadOnlyInstants : RLAdvance(t)
    \/ \E c \in ReadOnlyCommands, usage \in UsagePosts :
          ReadOnlyProcessed(c, UMUser, usage)

SpecReadOnly == InitReadOnly /\ [][NextReadOnly]_vars

\* C26: the processing of a read-only command (stats, leaderboard,
\* userinfo, pixel-info, colors) changes no rate-limit window record and no
\* user's total_draws.
C26_ReadOnlyNotMetered ==
    [][(\E c \in ReadOnlyCommands, u \in UserIds, usage \in UsagePosts :
           ReadOnlyProcessed(c, u, usage))
       => /\ rate_limits' = rate_limits
          /\ \A u \in UserIds : TotalDraws(users', u) = TotalDraws(users, u)]_vars

(***************************************************************************)
(* Two users who make the same snapshot checks at the same times, all      *)
(* inside one window that starts empty: TierUser, whose premium flag is    *)
(* set at some moment through PUT /api/users/{user_id}/premium, and        *)
(* PlainUser, who is never premium. outcome keeps, for every pair of       *)
(* checks, the flag of TierUser when it was made and the two answers.      *)
(***************************************************************************)
MaxTierCalls == 7
TierUser == "u1"
PlainUser == "u2"
TierCommand == "snapshot"
TierInstants == {0, 5, 10, 15, 20, 25, 27}

TierCalls == IF IsSome(outcome) THEN Get(outcome).calls ELSE <<>>

TierChecked(a, b) ==
    /\ users' = b.w.users
    /\ cache_user' = b.w.cache_user
    /\ rate_limits' = b.w.rate_limits
    /\ cache_rl' = b.w.cache_rl
    /\ outcome' = Some([calls |-> Append(TierCalls,
                                         [time |-> now,
                                          is_premium |-> IsPremium(users, TierUser),
                                          tier_allowed |-> a.status = 200,
                                          plain_allowed |-> b.status = 200])])
    /\ UNCHANGED <<now, rl_log, resp, bus, pixels, canvas_doc, drawing, drawn, updating, responses, snapshots>>

\* POST /api/rate-limit/check of the one user, then of the other
TierThenPlain(a) ==
    TierChecked(a, handle_rate_limit_check(a.w, PlainUser, TierCommand, FALSE, now))

TierCheck ==
    /\ Len(TierCalls) < MaxTierCalls
    /\ TierThenPlain(handle_rate_limit_check(World, TierUser, TierCommand, FALSE, now))

\* PUT /api/users/{user_id}/premium {is_premium}
TierSetPremium(is_premium) ==
    /\ ~IsPremium(users, TierUser)
    /\ users' = handle_users(World, "premium", TierUser, is_premium, now).w.users
    /\ cache_user' = handle_users(World, "premium", TierUser, is_premium, now).w.cache_user
    /\ UNCHANGED <<now, rate_limits, cache_rl, rl_log, updating>>
    /\ UNCHANGED pipeVars

InitTiers == InitStores

NextTiers ==
    \/ \E t \in TierInstants : RLAdvance(t)
    \/ TierCheck
    \/ TierSetPremium(TRUE)

SpecTiers == InitTiers /\ [][NextTiers]_vars

TierAdmitted == Cardinality({i \in 1..Len(TierCalls) : TierCalls[i].tier_allowed})

PlainAdmitted == Cardinality({i \in 1..Len(TierCalls) : TierCalls[i].plain_allowed})

\* a check beyond the non-premium ceiling and within the premium one, made
\* while the user was flagged premium
BeyondPlainCeiling ==
    \E i \in 1..Len(TierCalls) :
        /\ i > max_calls(TierCommand, FALSE)
        /\ i <= max_calls(TierCommand, TRUE)
        /\ TierCalls[i].is_premium

\* C27: of two users who make the same checks of a command at the same
\* times inside one window, the one whose premium flag is set is admitted
\* at least as often as the one who is never premium, and strictly more
\* often once a check beyond the non-premium ceiling was made while the
\* flag was set, however recently it was set.
C27_PremiumAdmittedMore ==
    /\ TierAdmitted >= PlainAdmitted
    /\ BeyondPlainCeiling => TierAdmitted > PlainAdmitted

(***************************************************************************)
(* admin_commands.py: the handlers of ban, unban and setpremium. An        *)
(* interaction holds whether it has a member, the member's permissions,    *)
(* the target user of its options and whether the target is among its      *)
(* resolved users.                                                         *)
(***************************************************************************)
\* member.get('permissions'): absent, an int, the decimal string of an int,
\* or a string that is no number
NoPermissions == [kind |-> "absent", value |-> 0]
NotANumber == [kind |-> "text", value |-> 0]

\* permissions & bit, for a bit 2^k
has_bit(permissions, bit) == (permissions \div bit) % 2 = 1

ADMINISTRATOR == 8
MANAGE_GUILD == 32

\* if permissions: ... of an int, and of a string (only '' is falsy)
truthy(permissions) ==
    IF permissions.kind = "int" THEN permissions.value # 0
    ELSE permissions.kind \in {"str", "text"}

is_admin_any_permission(interaction_data) ==
    /\ interaction_data.member
    /\ truthy(interaction_data.permissions)
    /\ interaction_data.permissions.kind # "text"
    /\ interaction_data.permissions.value # 0

is_admin(interaction_data) ==
    /\ interaction_data.member
    /\ truthy(interaction_data.permissions)
    /\ interaction_data.permissions.kind # "text"
    /\ \/ has_bit(interaction_data.permissions.value, ADMINISTRATOR)
       \/ has_bit(interaction_data.permissions.value, MANAGE_GUILD)

\* check_admin_and_get_target, for an admin: a target that is not among the
\* resolved users is looked up with GET /api/users/{target}
check_admin_and_get_target(w, interaction_data, t) ==
    IF IsSome(interaction_data.target) /\ ~interaction_data.resolved
    THEN handle_get_user(w, Get(interaction_data.target), t).w
    ELSE w

admin_route(command_name) ==
    IF command_name = "ban" THEN "ban"
    ELSE IF command_name = "unban" THEN "unban"
    ELSE "premium"

admin_answered(a) ==
    [reply |-> IF a.status = 200 THEN "done" ELSE "error", w |-> a.w]

\* handle_ban, handle_unban, handle_setpremium
handle_admin(w, interaction_data, t) ==
    IF ~is_admin(interaction_data) THEN [reply |-> "permission_denied", w |-> w]
    ELSE IF ~IsSome(interaction_data.target) THEN [reply |-> "error", w |-> w]
    ELSE admin_answered(
             handle_users(check_admin_and_get_target(w, interaction_data, t),
                          admin_route(Get(interaction_data.command)),
                          Get(interaction_data.target),
                          /\ Get(interaction_data.command) = "setpremium"
                          /\ interaction_data.premium,
                          t))

(***************************************************************************)
(* The base processor at work on the admin commands of one caller, with    *)
(* and without a member, over the permissions a member may carry. outcome  *)
(* keeps the interaction handled last, its reply and the users before it.  *)
(***************************************************************************)
AdminCommands == {"ban", "unban", "setpremium"}
AdminCaller == "u1"
AdminTarget == "u2"

AdminPermissions ==
    {NoPermissions, NotANumber}
    \cup {[kind |-> "int", value |-> n] : n \in {0, 8, 16}}
    \cup {[kind |-> "str", value |-> n] : n \in {0, 16, 32}}

\* the premium option only comes with setpremium, and only a target can be
\* among the resolved users
AdminInteractions ==
    {i \in [type : {2}, command : {Some(c) : c \in AdminCommands},
            user : {Some(AdminCaller)}, member : BOOLEAN,
            permissions : AdminPermissions, target : {None, Some(AdminTarget)},
            resolved : BOOLEAN, premium : BOOLEAN] :
        /\ i.premium => i.command = Some("setpremium")
        /\ i.resolved => IsSome(i.target)}

AdminAnswered(i, d) ==
    /\ users' = d.w.users
    /\ cache_user' = d.w.cache_user
    /\ outcome' = Some([interaction |-> i, reply |-> d.reply, before |-> users])
    /\ UNCHANGED <<now, rate_limits, cache_rl, rl_log, resp, bus, pixels,
                   canvas_doc, drawing, drawn, updating, responses, snapshots>>

\* the handler, then the rest of process_interaction
AdminDispatched(i, h, usage) ==
    AdminAnswered(i, Dispatched([raised |-> FALSE, reply |-> h.reply], h.w, i,
                                usage, now))

AdminProcessed(i, usage) == AdminDispatched(i, handle_admin(World, i, now), usage)

InitAdmin == InitStores

NextAdmin ==
    \E i \in AdminInteractions, usage \in UsagePosts : AdminProcessed(i, usage)

SpecAdmin == InitAdmin /\ [][NextAdmin]_vars

\* the permission bits of the caller include Administrator or Manage Guild
Elevated(i) ==
    /\ i.member
    /\ i.permissions.kind \in {"int", "str"}
    /\ \/ has_bit(i.permissions.value, ADMINISTRATOR)
       \/ has_bit(i.permissions.value, MANAGE_GUILD)

\* C28: an admin command (ban, unban, setpremium) of a caller whose
\* permission bits include no elevated permission is answered with the
\* permission-denied reply, and is_banned and is_premium of every user are
\* left as they were before it.
C28_AdminOnly ==
    (IsSome(outcome) /\ ~Elevated(Get(outcome).interaction))
    => /\ Get(outcome).reply = "permission_denied"
       /\ \A u \in UserIds :
             /\ IsBanned(users, u) = IsBanned(Get(outcome).before, u)
             /\ IsPremium(users, u) = IsPremium(Get(outcome).before, u)

\* a member who holds a permission that is not an elevated one asked for
\* the ban of a user who is not banned
C28_Witness ==
    /\ IsSome(outcome)
    /\ Get(outcome).interaction.command = Some("ban")
    /\ Get(outcome).interaction.member
    /\ Get(outcome).interaction.permissions = [kind |-> "str", value |-> 16]
    /\ Get(outcome).interaction.target = Some(AdminTarget)
    /\ Get(outcome).reply = "permission_denied"
    /\ ~IsBanned(users, AdminTarget)
    /\ IsPremium(users, AdminTarget)

(***************************************************************************)
(* The replies kept for polling: proxy/main.py (_web_responses) and the    *)
(* two versions of web-frontend/main.py (responses). A slot of a web       *)
(* frontend is [data, timestamp]; a slot of the proxy is the wrapped reply *)
(* [status, data], to which stored_at is added to tell its age.            *)
(***************************************************************************)
ResponseTTL == 300
SweepSleep == 60

\* the bodies a processor posts: a reply, and a body whose status is
\* 'processing'
Payloads == {"a", "processing"}

\* receive_web_response: _web_responses[token] = web_response
receive_web_response(slots, token, payload, t) ==
    [slots EXCEPT ![token] = Some([status |-> "success", data |-> payload,
                                   stored_at |-> t])]

\* get_web_response: the stored reply is deleted when it is returned
get_web_response(slots, token) ==
    IF IsSome(slots[token])
    THEN [status |-> 200, body |-> Some(Get(slots[token]).data),
          slots |-> [slots EXCEPT ![token] = None]]
    ELSE [status |-> 202, body |-> None, slots |-> slots]

\* webhook_handler: responses[token] = {'data': data, 'timestamp': time.time()};
\* the version of src/web-frontend ignores a body whose status is
\* 'processing'
webhook_handler(slots, k, token, payload, t) ==
    IF k = "web_frontend" /\ payload = "processing" THEN slots
    ELSE [slots EXCEPT ![token] = Some([data |-> payload, timestamp |-> t])]

\* get_response: the stored data, which stays stored; the version of
\* src/web-frontend answers 202 for a stored body whose status is
\* 'processing'
get_response(slots, k, token) ==
    IF ~IsSome(slots[token]) THEN [status |-> 202, body |-> None, slots |-> slots]
    ELSE IF k = "web_frontend" /\ Get(slots[token]).data = "processing"
    THEN [status |-> 202, body |-> None, slots |-> slots]
    ELSE [status |-> 200, body |-> Some(Get(slots[token]).data), slots |-> slots]

\* cleanup_responses, after its sleep: the entries with
\* now - v['timestamp'] > 300 are deleted
cleanup_responses(slots, t) ==
    [token \in Tokens |->
        IF IsSome(slots[token]) /\ t - Get(slots[token]).timestamp > ResponseTTL
        THEN None ELSE slots[token]]

\* POST /webhook of a web frontend, POST /web-response of the proxy
stored(slots, k, token, payload, t) ==
    IF k = "proxy" THEN receive_web_response(slots, token, payload, t)
    ELSE webhook_handler(slots, k, token, payload, t)

\* GET /response/{token}
polled(slots, k, token) ==
    IF k = "proxy" THEN get_web_response(slots, token)
    ELSE get_response(slots, k, token)

\* the time a slot was stored at
StoredAt(k, slot) == IF k = "proxy" THEN slot.stored_at ELSE slot.timestamp

(***************************************************************************)
(* Replies posted to the three components and polled from them, while the  *)
(* cleanup threads of the web frontends sleep and sweep. resp keeps the    *)
(* poll answered last, with the slot before it and after it.               *)
(***************************************************************************)
MaxClock == 420

Store(k, token, payload) ==
    /\ responses' = [responses EXCEPT ![k] = stored(@, k, token, payload, now)]
    /\ UNCHANGED <<now, rl_log, resp, bus, pixels, outcome, canvas_doc, drawing, drawn, snapshots>>
    /\ UNCHANGED umVars

Polled(k, token, a) ==
    /\ responses' = [responses EXCEPT ![k] = a.slots]
    /\ resp' = Some([component |-> k, token |-> token, status |-> a.status,
                     body |-> a.body, before |-> responses[k][token],
                     after |-> a.slots[token]])
    /\ UNCHANGED <<now, rl_log, bus, pixels, outcome, canvas_doc, drawing, drawn, snapshots>>
    /\ UNCHANGED umVars

Poll(k, token) == Polled(k, token, polled(responses[k], k, token))

\* one turn of the cleanup threads: time.sleep(60), then the sweep
CleanupResponses ==
    /\ now < MaxClock
    /\ now' = now + SweepSleep
    /\ responses' = [k \in Components |->
                        IF k = "proxy" THEN responses[k]
                        ELSE cleanup_responses(responses[k], now + SweepSleep)]
    /\ UNCHANGED <<rl_log, resp, bus, pixels, outcome, canvas_doc, drawing, drawn, snapshots>>
    /\ UNCHANGED umVars

InitSlots == InitStores

NextSlots ==
    \/ \E k \in Components, token \in Tokens, payload \in Payloads :
          Store(k, token, payload)
    \/ \E k \in Components, token \in Tokens : Poll(k, token)
    \/ CleanupResponses

SpecSlots == InitSlots /\ [][NextSlots]_vars

\* a reply, as opposed to a body that reports a command still processing
IsReply(slot) == IsSome(slot) /\ Get(slot).data # "processing"

\* C29: in every component, a poll of a token made while nothing is
\* stored for it answers 202; a poll made while a reply is stored answers
\* 200 with that reply and consumes it, so that the slot is empty after it.
C29_PolledOnce ==
    IsSome(resp) =>
        /\ ~IsSome(Get(resp).before) => Get(resp).status = 202
        /\ IsReply(Get(resp).before)
           => /\ Get(resp).status = 200
              /\ Get(resp).body = Some(Get(Get(resp).before).data)
              /\ ~IsSome(Get(resp).after)

\* C30: in every component, no reply is still stored once it is older than
\* the five minutes of the TTL and the minute between two sweeps.
C30_StaleRepliesDiscarded ==
    \A k \in Components, token \in Tokens :
        IsSome(responses[k][token])
        => now - StoredAt(k, Get(responses[k][token])) <= ResponseTTL + SweepSleep

(***************************************************************************)
(* Draw commands whose options the draw handler refuses: x or y missing,   *)
(* a colour _parse_color does not accept, coordinates outside the canvas.  *)
(* The proxy receives them on both channels from a caller who registers    *)
(* meanwhile; the subscriber of the topic acknowledges what was published. *)
(***************************************************************************)
\* handle_draw, lines 82-128: the options it answers with an error embed
refused_options(options) ==
    \/ ~IsSome(options)
    \/ ~IsSome(parse_color(color_option(Get(options))))
    \/ ~in_canvas(Get(options).x, Get(options).y)

InvalidDrawOptions ==
    {None, DrawOptions(CANVAS_SIZE, 5, Some("#FF0000")),
     DrawOptions(5, -1, Some("#FF0000")), DrawOptions(5, 5, Some("#GG0000")),
     DrawOptions(5, 5, Some("FF0000"))}

InvalidDrawBodies ==
    {Some(Interaction(2, Some("draw"), id, ProxyCaller, FALSE, options)) :
        id \in {"member", "user"}, options \in InvalidDrawOptions}

InvalidDrawInstants == {0, 61}

WebDraw(bodies) ==
    \E body \in bodies :
        WebInteractions(body, TRUE, NoFault, "published")

InitInvalidDraw == InitStores

NextInvalidDraw ==
    \/ \E t \in InvalidDrawInstants : RLAdvance(t)
    \/ Register(ProxyCaller)
    \/ DiscordDraw(InvalidDrawBodies)
    \/ WebDraw(InvalidDrawBodies)
    \/ \E k \in 1..MaxBus : BusAck(k)

SpecInvalidDraw == InitInvalidDraw /\ [][NextInvalidDraw]_vars

\* The request handled last is a draw command with options the draw handler
\* refuses.
InvalidDrawHandled ==
    /\ IsSome(resp)
    /\ IsSome(Get(resp).interaction)
    /\ Get(Get(resp).interaction).command = Some("draw")
    /\ refused_options(Get(Get(resp).interaction).options)

\* C31: a draw interaction with out-of-range coordinates, a malformed colour
\* or missing x/y options is answered synchronously with an error reply (not
\* the deferred acknowledgement, not 'processing') and no Envelope is
\* published for it.
C31_InvalidDrawNotPublished ==
    InvalidDrawHandled =>
        /\ ~Get(resp).published
        /\ Get(resp).reply.kind \notin {"deferred", "processing"}

(***************************************************************************)
(* Web requests and their session. auth-service keeps the sessions it      *)
(* issued and POST /auth/verify answers for a session id; a web client     *)
(* sends its session id in the Authorization header. web_interactions      *)
(* reads the JSON body and X-Correlation-ID of the request and nothing     *)
(* else. outcome keeps the Authorization header of the request handled     *)
(* last.                                                                   *)
(***************************************************************************)
\* The documents of the collection 'sessions', none of them expired
StoredSessions == {"s1"}

\* auth-service/main.py: handle_verify, the status of its answer
handle_verify(session_id) ==
    IF ~IsSome(session_id) THEN 400
    ELSE IF Get(session_id) \in StoredSessions THEN 200
    ELSE 401

\* The Authorization header of a request: absent, a bearer token that is a
\* stored session, a bearer token that is none
AuthorizationHeaders == {None, Some("s1"), Some("forged")}

SessionBodies ==
    {Some(Interaction(2, Some(c), "user", ProxyCaller, TRUE, None)) :
        c \in WebCommands}

\* POST /web/interactions with an Authorization header
WebSessionRequest(authorization, body, a) ==
    /\ Len(bus) + (IF IsSome(a.envelope) THEN 1 ELSE 0) <= MaxBus
    /\ users' = a.w.users
    /\ cache_user' = a.w.cache_user
    /\ rate_limits' = a.w.rate_limits
    /\ cache_rl' = a.w.cache_rl
    /\ bus' = IF IsSome(a.envelope) THEN Append(bus, Get(a.envelope)) ELSE bus
    /\ resp' = Observe("web", [signature |-> "missing", ok |-> FALSE], body, a)
    /\ outcome' = Some([authorization |-> authorization])
    /\ UNCHANGED <<now, rl_log, pixels, canvas_doc, drawing, drawn, updating, responses, snapshots>>

WebWithSession(bodies) ==
    \E authorization \in AuthorizationHeaders, body \in bodies :
        WebSessionRequest(authorization, body,
                          web_interactions(World, now, body, TRUE, NoFault,
                                           "published"))

InitWebSession == InitStores

NextWebSession ==
    \/ Register(ProxyCaller)
    \/ WebWithSession(SessionBodies)
    \/ \E k \in 1..MaxBus : BusAck(k)

SpecWebSession == InitWebSession /\ [][NextWebSession]_vars

\* The web request handled last was pre-checked against the user-manager,
\* answered with the result of a command, or published.
WebRequestServed ==
    /\ IsSome(resp)
    /\ IsSome(outcome)
    /\ Get(resp).channel = "web"
    /\ \/ Get(resp).um_calls > 0
       \/ Get(resp).reply.kind = "simple"
       \/ Get(resp).published

\* C32: a web interaction is pre-checked, answered with a command result or
\* published only when its Authorization header carries a session that
\* auth-service verifies; a request without one causes no Envelope to be
\* published.
C32_WebNeedsVerifiedSession ==
    WebRequestServed => handle_verify(Get(outcome).authorization) = 200

(***************************************************************************)
(* canvas_manager.py: create_snapshot. The document id is                  *)
(* snapshot_{timestamp}_{user_id or 'system'} with timestamp the clock in  *)
(* whole seconds, as now is. A document keeps its id, its author, the grid *)
(* get_canvas_array returned and the URL of the upload; created_at (a      *)
(* server timestamp) and the constant fields are left out, so two          *)
(* documents that differ here differ in the collection as well.            *)
(***************************************************************************)
\* the outcomes of the upload and of the write of the document
SnapshotOutcomes == {"uploaded", "gcs_unavailable", "write_failed"}

\* get_canvas_array: the grid of the canvas document over the default color
get_canvas_array(canvas) ==
    [x \in Coords |-> [y \in Coords |->
        IF IsSome(canvas.canvas_doc.grid[x][y])
        THEN Get(canvas.canvas_doc.grid[x][y]) ELSE DEFAULT_COLOR]]

snapshot_id(user_id, t) ==
    [timestamp |-> t, user_id |-> IF IsSome(user_id) THEN Get(user_id) ELSE "system"]

snapshot_data(canvas, user_id, t, o) ==
    [snapshot_id |-> snapshot_id(user_id, t), created_by |-> user_id,
     public_url |-> IF o = "uploaded" THEN Some(snapshot_id(user_id, t)) ELSE None,
     storage_backend |-> IF o = "uploaded" THEN "gcs" ELSE "none",
     canvas_state_json |-> get_canvas_array(canvas)]

\* snapshots_ref.document(snapshot_id).set(snapshot_data)
snapshot_set(docs, data) ==
    {d \in docs : d.snapshot_id # data.snapshot_id} \cup {data}

create_snapshot(canvas, docs, user_id, t, o) ==
    IF o = "write_failed" THEN [success |-> FALSE, snapshot_id |-> None, docs |-> docs]
    ELSE [success |-> TRUE, snapshot_id |-> Some(snapshot_id(user_id, t)),
          docs |-> snapshot_set(docs, snapshot_data(canvas, user_id, t, o))]

(***************************************************************************)
(* The Canvas Store serving draws and snapshot requests of one user, one   *)
(* call at a time, while the clock passes from one second to the next.     *)
(* outcome keeps the snapshot request answered last and the number of      *)
(* snapshot requests that succeeded.                                       *)
(***************************************************************************)
MaxSnapshots == 3   \* snapshot requests that succeeded

SnapshotInstants == {0, 1}

SnapshotColors == {"#FF0000", "#0000FF"}

Succeeded == IF IsSome(outcome) THEN Get(outcome).succeeded ELSE 0

SnapshotAnswered(user_id, r) ==
    /\ snapshots' = r.docs
    /\ outcome' = Some([user_id |-> user_id, success |-> r.success,
                        snapshot_id |-> r.snapshot_id,
                        succeeded |-> Succeeded + (IF r.success THEN 1 ELSE 0)])
    /\ UNCHANGED <<now, rl_log, resp, bus, pixels, canvas_doc, drawing, drawn, responses>>
    /\ UNCHANGED umVars

\* POST /canvas/snapshot
CreateSnapshot(user_id, o) ==
    /\ Succeeded < MaxSnapshots
    /\ SnapshotAnswered(user_id, create_snapshot(Canvas, snapshots, user_id, now, o))

InitSnapshots == InitStores

NextSnapshots ==
    \/ \E t \in SnapshotInstants : RLAdvance(t)
    \/ \E color \in SnapshotColors : DrawPixel(0, 0, color, "u1")
    \/ \E o \in SnapshotOutcomes : CreateSnapshot(Some("u1"), o)

SpecSnapshots == InitSnapshots /\ [][NextSnapshots]_vars

\* C33: a Snapshot record, once created, is never overwritten or modified by
\* a later operation, a later snapshot request of the same user included,
\* and every snapshot request that succeeds adds a record of its own to the
\* collection.
C33_SnapshotsImmutable ==
    [][/\ \A d \in snapshots : d \in snapshots'
       /\ Succeeded' > Succeeded
          => Cardinality(snapshots') = Cardinality(snapshots) + 1]_vars

(***************************************************************************)
(* check_rate_limit of several requests at once. The handler reads the     *)
(* cache, then the window document (limit_ref.get(), line 87), and writes  *)
(* the document it computed from what it read (set at line 93, update at   *)
(* line 149) with no transaction: the reads and the writes of two requests *)
(* interleave. updating[p] is the check of request p between its read and  *)
(* its write. outcome keeps the largest number of checks that were in      *)
(* flight together and whether an answer was served from the cache. The    *)
(* clock advances between the rounds of checks, by the lifetime of a cache *)
(* entry.                                                                  *)
(***************************************************************************)
MaxRaceAdmitted == 8    \* allowed answers observed in the window

RaceUser == "u1"
RaceCommand == "snapshot"
RaceInstants == {0, 5, 10, 15}

InFlightChecks == Cardinality({p \in Requests : IsSome(updating[p])})

RaceSeen ==
    IF IsSome(outcome) THEN Get(outcome) ELSE [in_flight |-> 0, cached |-> FALSE]

Larger(a, b) == IF a > b THEN a ELSE b

\* lines 64-75: the answer kept in the cache is returned
CheckCached(u, c, is_premium) ==
    /\ IsSome(cache_get(cache_rl[u][c], now))
    /\ Len(rl_log.admitted[u][c]) + InFlightChecks < MaxRaceAdmitted
    /\ rl_log' = LogCheck(rl_log, "check", u, c, is_premium, now,
                          check_rate_limit(rate_limits[u][c], cache_rl[u][c], c,
                                           is_premium, now))
    /\ outcome' = Some([RaceSeen EXCEPT !.cached = TRUE])
    /\ UNCHANGED <<now, rate_limits, cache_rl, cache_user, users, updating>>
    /\ UNCHANGED <<resp, bus, pixels, canvas_doc, drawing, drawn, responses, snapshots>>

\* lines 64-90: the cache has no answer and the window document is read
CheckRead(p, u, c, is_premium) ==
    /\ ~IsSome(updating[p])
    /\ ~IsSome(cache_get(cache_rl[u][c], now))
    /\ Len(rl_log.admitted[u][c]) + InFlightChecks < MaxRaceAdmitted
    /\ updating' = [updating EXCEPT ![p] =
                        Some([op |-> "check_rate_limit", user |-> u, command |-> c,
                              is_premium |-> is_premium, time |-> now,
                              doc |-> rate_limits[u][c]])]
    /\ cache_rl' = [cache_rl EXCEPT ![u][c] = cache_after_get(@, now)]
    /\ outcome' = Some([RaceSeen EXCEPT !.in_flight = Larger(@, InFlightChecks + 1)])
    /\ UNCHANGED <<now, rate_limits, cache_user, users, rl_log>>
    /\ UNCHANGED <<resp, bus, pixels, canvas_doc, drawing, drawn, responses, snapshots>>

\* lines 92-166: the answer computed from the document that was read; the
\* document is written when the call is allowed, the cache in every case
CheckWritten(p, d, res) ==
    /\ rate_limits' = IF res.result.allowed
                      THEN [rate_limits EXCEPT ![d.user][d.command] = res.doc]
                      ELSE rate_limits
    /\ cache_rl' = [cache_rl EXCEPT ![d.user][d.command] = res.entry]
    /\ rl_log' = LogCheck(rl_log, "check", d.user, d.command, d.is_premium, d.time, res)
    /\ updating' = [updating EXCEPT ![p] = None]
    /\ UNCHANGED <<now, cache_user, users>>
    /\ UNCHANGED pipeVars

CheckWrite(p) ==
    /\ IsSome(updating[p])
    /\ Get(updating[p]).op = "check_rate_limit"
    /\ CheckWritten(p, Get(updating[p]),
                    check_rate_limit(Get(updating[p]).doc, None,
                                     Get(updating[p]).command,
                                     Get(updating[p]).is_premium,
                                     Get(updating[p]).time))

RaceAdvance(t) == InFlightChecks = 0 /\ RLAdvance(t)

InitRLRace == InitStores

NextRLRace ==
    \/ \E t \in RaceInstants : RaceAdvance(t)
    \/ CheckCached(RaceUser, RaceCommand, FALSE)
    \/ \E p \in Requests : CheckRead(p, RaceUser, RaceCommand, FALSE)
    \/ \E p \in Requests : CheckWrite(p)

SpecRLRace == InitRLRace /\ [][NextRLRace]_vars

\* C34: when the checks of a (user, command) run at the same time and every
\* answer is decided from the window document (none is served from the
\* cache), the calls admitted within the window exceed max_calls by at most
\* the number of checks that were in flight together minus one.
C34_OverAdmissionBounded ==
    ~RaceSeen.cached
    => Len(rl_log.admitted[RaceUser][RaceCommand])
         <= max_calls(RaceCommand, FALSE) + RaceSeen.in_flight - 1

(***************************************************************************)
(* The order of the steps of discord_interactions for one command: the     *)
(* registration check, check_user_allowed (ban, then rate limit), the      *)
(* simple commands, the publish, the answer. Each step is an action, so    *)
(* that registrations, bans and the subscriber of the topic interleave     *)
(* with them. resp is the command being handled: the step it is at, the    *)
(* pre-checks that have returned, the outcome of the publish and the       *)
(* answer. The proxy takes the next command once the Envelope of this one  *)
(* has left the bus; outcome is the Envelope a processor executed for it.  *)
(***************************************************************************)
following_publishes_first(pc) ==
    IF pc = "registration" THEN "publish"
    ELSE IF pc = "publish" THEN "reply"
    ELSE "answered"

\* interaction_handler.py lines 57-119 and main.py lines 327-351: the step
\* that follows a step that did not answer
following(pc) ==
    IF pc = "registration" THEN "limits"
    ELSE IF pc = "limits" THEN "command"
    ELSE IF pc = "command" THEN "publish"
    ELSE IF pc = "publish" THEN "reply"
    ELSE "answered"

Handling(i) ==
    [pc |-> "registration", interaction |-> i, checks |-> {}, publish |-> "none",
     reply |-> None]

AnsweredWith(h, reply) == [h EXCEPT !.pc = "answered", !.reply = Some(reply)]

CommandOfHandling(h) == Get(h.interaction.command)

CallerOfHandling(h) == get_user_id_from_interaction(h.interaction)

\* lines 57-81: is_user_registered has returned
registration_done(h, reg) ==
    IF ~reg.registered THEN AnsweredWith(h, registration_required("discord"))
    ELSE [h EXCEPT !.pc = following(h.pc),
                   !.checks = @ \cup (IF reg.calls > 0 THEN {"registration"} ELSE {})]

\* lines 83-103: check_user_allowed has returned
limits_done(h, chk) ==
    IF ~chk.allowed
    THEN AnsweredWith(h, IF IsSome(chk.rate_limit_info)
                         THEN get_rate_limit_error_response(Get(chk.rate_limit_info),
                                                            "discord")
                         ELSE access_denied("discord"))
    ELSE [h EXCEPT !.pc = following(h.pc),
                   !.checks = @ \cup (IF chk.calls > 0 THEN {"ban", "rate_limit"} ELSE {})]

\* lines 105-119: handle_simple_command, else None
command_done(h) ==
    IF IsSome(handle_simple_command(CommandOfHandling(h), "discord"))
    THEN AnsweredWith(h, Get(handle_simple_command(CommandOfHandling(h), "discord")))
    ELSE [h EXCEPT !.pc = following(h.pc)]

\* main.py lines 339-351: {'type': 5} when publish_to_pubsub returned, the
\* unavailable reply when it raised
reply_done(h) ==
    [h EXCEPT !.pc = following(h.pc),
              !.reply = Some(IF publish_to_pubsub(h.publish).raised
                             THEN get_error_response("discord", "unavailable")
                             ELSE Reply(200, "deferred"))]

OrderedCommands == {"draw", "snapshot", "stats", "help", "register"}

OrderedBodies ==
    {Interaction(2, Some(c), "member", ProxyCaller, FALSE, None) : c \in OrderedCommands}

HandlerStep(h, w) ==
    /\ resp' = Some(h)
    /\ users' = w.users
    /\ cache_user' = w.cache_user
    /\ rate_limits' = w.rate_limits
    /\ cache_rl' = w.cache_rl
    /\ UNCHANGED <<now, rl_log, bus, pixels, outcome, canvas_doc, drawing, drawn,
                   updating, responses, snapshots>>

\* a command interaction whose signature verified reaches process_interaction
ReceiveCommand(i) ==
    /\ IsSome(resp) => Get(resp).pc = "answered"
    /\ bus = <<>>
    /\ resp' = Some(Handling(i))
    /\ outcome' = None
    /\ UNCHANGED <<now, rl_log, bus, pixels, canvas_doc, drawing, drawn, responses, snapshots>>
    /\ UNCHANGED umVars

RegistrationCheck ==
    /\ IsSome(resp)
    /\ Get(resp).pc = "registration"
    /\ IF registration_checked(CallerOfHandling(Get(resp)), CommandOfHandling(Get(resp)))
       THEN HandlerStep(registration_done(Get(resp),
                            is_user_registered(World, Get(CallerOfHandling(Get(resp))),
                                               now, TRUE, "answered")),
                        is_user_registered(World, Get(CallerOfHandling(Get(resp))),
                                           now, TRUE, "answered").w)
       ELSE HandlerStep([Get(resp) EXCEPT !.pc = following(@)], World)

LimitsCheck ==
    /\ IsSome(resp)
    /\ Get(resp).pc = "limits"
    /\ IF IsSome(CallerOfHandling(Get(resp)))
          /\ CommandOfHandling(Get(resp)) \in art_commands
       THEN HandlerStep(limits_done(Get(resp),
                            check_user_allowed(World, Get(CallerOfHandling(Get(resp))),
                                               CommandOfHandling(Get(resp)), now, TRUE,
                                               "answered", "answered")),
                        check_user_allowed(World, Get(CallerOfHandling(Get(resp))),
                                           CommandOfHandling(Get(resp)), now, TRUE,
                                           "answered", "answered").w)
       ELSE HandlerStep([Get(resp) EXCEPT !.pc = following(@)], World)

SimpleCommand ==
    /\ IsSome(resp)
    /\ Get(resp).pc = "command"
    /\ HandlerStep(command_done(Get(resp)), World)

\* publish_to_pubsub(topic, pubsub_data)
Publish(pub) ==
    /\ IsSome(resp)
    /\ Get(resp).pc = "publish"
    /\ resp' = Some([Get(resp) EXCEPT !.pc = following(@), !.publish = pub])
    /\ bus' = IF publish_to_pubsub(pub).delivered
              THEN Append(bus, Envelope(get_topic_for_command(Get(resp).interaction.command),
                                        Get(prepare_pubsub_data(Get(resp).interaction,
                                                                "discord"))))
              ELSE bus
    /\ UNCHANGED <<now, rl_log, pixels, outcome, canvas_doc, drawing, drawn, responses, snapshots>>
    /\ UNCHANGED umVars

ReplyToDiscord ==
    /\ IsSome(resp)
    /\ Get(resp).pc = "reply"
    /\ HandlerStep(reply_done(Get(resp)), World)

\* the subscriber of the topic receives the Envelope and executes its command
Execute(k) ==
    /\ k \in 1..Len(bus)
    /\ outcome' = Some([topic |-> bus[k].topic, data |-> bus[k].data])
    /\ bus' = SubSeq(bus, 1, k - 1) \o SubSeq(bus, k + 1, Len(bus))
    /\ UNCHANGED <<now, rl_log, resp, pixels, canvas_doc, drawing, drawn, responses, snapshots>>
    /\ UNCHANGED umVars

InitOrdered == InitStores

NextOrdered ==
    \/ Register(ProxyCaller)
    \/ \E banned \in BOOLEAN : SetBanned(ProxyCaller, banned)
    \/ \E i \in OrderedBodies : ReceiveCommand(i)
    \/ RegistrationCheck
    \/ LimitsCheck
    \/ SimpleCommand
    \/ \E pub \in PublishOutcomes : Publish(pub)
    \/ ReplyToDiscord
    \/ \E k \in 1..MaxBus : Execute(k)

SpecOrdered == InitOrdered /\ [][NextOrdered]_vars

\* the pre-checks the proxy makes for a command: registration unless the
\* command is of the allow-list, ban and rate limit for draw and snapshot
ProxyPreChecks(h) ==
    (IF registration_checked(CallerOfHandling(h), CommandOfHandling(h))
     THEN {"registration"} ELSE {})
    \cup (IF IsSome(CallerOfHandling(h)) /\ CommandOfHandling(h) \in art_commands
          THEN {"ban", "rate_limit"} ELSE {})

\* the publish of the command being handled has been made
PublishMade(h) == h.publish # "none" \/ bus # <<>> \/ IsSome(outcome)

\* C35: for a command interaction, the registration, ban and rate-limit
\* pre-checks the proxy makes for the command have all returned before its
\* Envelope is published; the deferred acknowledgement is the answer only
\* after publish_to_pubsub returned without raising; and an Envelope a
\* processor executes is the Envelope of a command that was published after
\* those pre-checks.
C35_ChecksBeforePublishBeforeExecute ==
    IsSome(resp) =>
        /\ PublishMade(Get(resp)) => ProxyPreChecks(Get(resp)) \subseteq Get(resp).checks
        /\ (IsSome(Get(resp).reply) /\ Get(Get(resp).reply).kind = "deferred")
           => Get(resp).publish = "published"
        /\ IsSome(outcome)
           => /\ publish_to_pubsub(Get(resp).publish).delivered
              /\ Get(outcome).data
                   = Get(prepare_pubsub_data(Get(resp).interaction, "discord"))
              /\ ProxyPreChecks(Get(resp)) \subseteq Get(resp).checks

\* A draw of a registered caller was checked, published, acknowledged and
\* executed.
C35_Witness ==
    /\ IsSome(resp)
    /\ IsSome(outcome)
    /\ Get(resp).pc = "answered"
    /\ Get(resp).interaction.command = Some("draw")
    /\ Get(resp).checks = {"registration", "ban", "rate_limit"}
    /\ Get(Get(resp).reply).kind = "deferred"
    /\ Get(outcome).data.command = Some("draw")

(***************************************************************************)
(* Pre-checks that get no answer. The proxy handles metered and unmetered  *)
(* commands of a caller who registers meanwhile, with USER_MANAGER_URL set *)
(* or not and with at most one of its calls to the user-manager failing.   *)
(* outcome keeps, for the request handled last, whether the URL was set    *)
(* and the outcome of each call.                                           *)
(***************************************************************************)
\* requests.get / requests.post raised: a timeout or a connection error
Unanswered == {"no_answer", "answer_lost"}

SoftFailureCommands == {"draw", "snapshot", "stats"}

SoftFailureBodies ==
    {Some(Interaction(2, Some(c), "member", ProxyCaller, FALSE, None)) :
        c \in SoftFailureCommands}

\* POST /discord/interactions, with the state of the user-manager calls
FaultyRequest(um_url, o, body, a) ==
    /\ Len(bus) + (IF IsSome(a.envelope) THEN 1 ELSE 0) <= MaxBus
    /\ users' = a.w.users
    /\ cache_user' = a.w.cache_user
    /\ rate_limits' = a.w.rate_limits
    /\ cache_rl' = a.w.cache_rl
    /\ bus' = IF IsSome(a.envelope) THEN Append(bus, Get(a.envelope)) ELSE bus
    /\ resp' = Observe("discord", [signature |-> "valid", ok |-> TRUE], body, a)
    /\ outcome' = Some([um_url |-> um_url, o |-> o])
    /\ UNCHANGED <<now, rl_log, pixels, canvas_doc, drawing, drawn, updating, responses, snapshots>>

DiscordWithFaults(bodies) ==
    \E body \in bodies, um_url \in BOOLEAN, o \in OneFault :
        FaultyRequest(um_url, o, body,
                      discord_interactions(World, now, "valid", "valid", body,
                                           um_url, o, "published"))

InitSoftFailure == InitStores

NextSoftFailure ==
    \/ Register(ProxyCaller)
    \/ DiscordWithFaults(SoftFailureBodies)
    \/ \E k \in 1..MaxBus : BusAck(k)

SpecSoftFailure == InitSoftFailure /\ [][NextSoftFailure]_vars

\* The request handled last is a command of a registered caller who is not
\* banned, and a pre-check of it got no answer: the URL of the user-manager
\* is not configured, or a call made for the command raised.
PreCheckUnanswered ==
    /\ IsSome(resp)
    /\ IsSome(outcome)
    /\ Get(resp).registered
    /\ ~Get(resp).banned
    /\ \/ ~Get(outcome).um_url
       \/ Get(outcome).o.reg \in Unanswered
       \/ /\ Get(Get(Get(resp).interaction).command) \in art_commands
          /\ Get(outcome).o.get \in Unanswered \/ Get(outcome).o.rl \in Unanswered

\* C36: when the registration check or the rate-limit check of a command
\* gets no answer (timeout, connection error, URL not configured), the
\* command proceeds: it is published and acknowledged, not rejected.
C36_UnansweredPreCheckAllows ==
    PreCheckUnanswered
    => /\ Get(resp).published
       /\ Get(resp).reply.kind = "deferred"

(***************************************************************************)
(* draw_pixel on arguments it should refuse: points outside the canvas and *)
(* color strings of every shape, next to a well-formed draw.               *)
(***************************************************************************)
ValidationPoints == {<<0, 0>>, <<47, 47>>, <<48, 0>>, <<0, -1>>}

ValidationColors == {"#FF0000", "#GG0000", "#12345Z", "#FFF", "FF0000", "red"}

InitValidation == InitStores

NextValidation ==
    \/ \E p \in ValidationPoints, color \in ValidationColors :
           DrawPixel(p[1], p[2], color, "u1")
    \/ \E p \in ValidationPoints : GetPixelInfo(p[1], p[2])

SpecValidation == InitValidation /\ [][NextValidation]_vars

\* The call answered last is a draw_pixel whose color is not '#' followed by
\* six hexadecimal digits or whose point is outside the canvas.
InvalidDrawPixel ==
    /\ last_call.op = "draw_pixel"
    /\ ~in_canvas(last_call.x, last_call.y) \/ last_call.color \notin HexColors

\* C37: a draw_pixel whose color is not '#' followed by six hexadecimal
\* digits, or whose coordinates are out of range, returns an error and
\* changes no pixel document and no field of the canvas document.
C37_InvalidDrawChangesNothing ==
    InvalidDrawPixel
    => /\ ~last_call.result.success
       /\ ~last_call.canvas_changed

(***************************************************************************)
(* An Envelope delivered twice. processor-draw handles the Envelope at the *)
(* head of the bus; the first handling is not acknowledged in time and the *)
(* bus delivers the Envelope again, some time later or at once, and the    *)
(* second handling acknowledges it. No other Envelope is delivered between *)
(* the two, so no other draw comes between the two deliveries.             *)
(* drawn keeps, for the Envelope delivered last, how many times it was     *)
(* delivered and what the pixel it aims at, total_pixels and the total     *)
(* draws of its user were after each delivery.                             *)
(***************************************************************************)
Measures(w, canvas, data) ==
    [pixel |-> canvas.pixels[Get(data.options).x][Get(data.options).y],
     total_pixels |-> canvas.canvas_doc.total_pixels,
     total_draws |-> TotalDraws(w.users, Get(data.user))]

\* 1 while the Envelope at the head of the bus awaits its second delivery
deliveries_so_far == IF IsSome(drawn) /\ Get(drawn).deliveries = 1 THEN 1 ELSE 0

Delivered(k, r, client, o) ==
    /\ placed_so_far + (IF r.kind = "placed" THEN 1 ELSE 0) <= MaxPlaced
    /\ users' = r.w.users
    /\ cache_user' = r.w.cache_user
    /\ rate_limits' = r.w.rate_limits
    /\ cache_rl' = r.w.cache_rl
    /\ pixels' = r.canvas.pixels
    /\ canvas_doc' = r.canvas.canvas_doc
    /\ outcome' = ObserveDraw(bus[k].data, r, client, o)
    /\ UNCHANGED <<now, rl_log, resp, drawing, updating, responses, snapshots>>

\* the first delivery: the Envelope stays with the bus
DeliverFirst(k, r, client, o) ==
    /\ Delivered(k, r, client, o)
    /\ bus' = bus
    /\ drawn' = Some([deliveries |-> 1, slot |-> k, data |-> bus[k].data,
                      first |-> Measures(r.w, r.canvas, bus[k].data),
                      second |-> Measures(r.w, r.canvas, bus[k].data)])

\* the second delivery, acknowledged
DeliverAgain(k, r, client, o) ==
    /\ k = Get(drawn).slot
    /\ Delivered(k, r, client, o)
    /\ bus' = SubSeq(bus, 1, k - 1) \o SubSeq(bus, k + 1, Len(bus))
    /\ drawn' = Some([Get(drawn) EXCEPT !.deliveries = 2,
                                        !.second = Measures(r.w, r.canvas, bus[k].data)])

DrawDelivery(k, client, o) ==
    /\ k \in 1..Len(bus)
    /\ bus[k].topic = "commands-draw"
    /\ IF deliveries_so_far = 0
       THEN DeliverFirst(k, processor_draw_handler(World, Canvas, bus[k].data, now,
                                                   client, o), client, o)
       ELSE DeliverAgain(k, processor_draw_handler(World, Canvas, bus[k].data, now,
                                                   client, o), client, o)

RedeliveryInstants == {0, 61}

InitRedelivery == InitStores

NextRedelivery ==
    \/ \E t \in RedeliveryInstants : RLAdvance(t)
    \/ Register(ProxyCaller)
    \/ DiscordDraw(DrawBodies)
    \/ \E k \in 1..MaxBus, client \in UserClients :
          \E o \in DrawFaults(client) : DrawDelivery(k, client, o)

SpecRedelivery == InitRedelivery /\ [][NextRedelivery]_vars

\* The Envelope delivered last was delivered twice, and after its first
\* delivery the pixel held the color and the user of the Envelope.
DeliveredTwice ==
    /\ IsSome(drawn)
    /\ Get(drawn).deliveries = 2
    /\ Get(drawn).first.pixel
         = Some([color |-> Get(parse_color(color_option(Get(Get(drawn).data.options)))),
                 user_id |-> Get(Get(drawn).data.user)])

GridColor(x, y) == canvas_doc.grid[x][y]

\* the color the pixel document of a cell holds (get_pixel_info)
RecordColor(x, y) == previous_color(pixels[x][y])

\* the users who own a pixel document: each of them has drawn with success
PixelOwners ==
    {Get(pixels[c[1]][c[2]]).user_id :
        c \in {d \in Coords \X Coords : IsSome(pixels[d[1]][d[2]])}}

\* C39: whenever no draw_pixel call is in flight, the color the canvas
\* document holds for a cell is the color of its pixel document, for every
\* cell, also after draws of different colors to the same cell that ran at
\* the same time.
C39_GridMatchesRecords ==
    InFlight = 0
    => \A x \in Coords, y \in Coords : GridColor(x, y) = RecordColor(x, y)

\* C40: whenever no draw_pixel call is in flight, unique_contributors holds
\* every user who has drawn a pixel with success (every user who owns a
\* pixel document among them), also when different users drew at the same
\* time.
C40_ContributorsComplete ==
    InFlight = 0 => PixelOwners \subseteq canvas_doc.unique_contributors

====
